---- MODULE Spec2Model ----
(***************************************************************************)
(* TweetsApi: the data-access controller (CrudController) over the ORM     *)
(* schema of application/models/_models.py.  The tables are sets of rows,  *)
(* a request runs in its own session (dependencies.get_crud_controller),   *)
(* and a handler is one action that leaves the session at pc = "done" with *)
(* the value it returns, the storage operations it issued and the          *)
(* committed state it started from; Respond closes the session.            *)
(***************************************************************************)
EXTENDS Integers, Sequences, FiniteSets, TLC

\* ------------------------------------------------------------------ bounds
\* Number of Tweet ids the tweets_id sequence hands out in a run.
MaxTweets == 2
\* Number of Media ids the medias_id sequence hands out in a run.
MaxMedias == 2

\* ------------------------------------------------------------- the universe
\* Pre-seeded users (registration is outside the controller).
Users == {1, 2, 3}
\* Ids a path parameter can carry: the users and one id of no user.
UserIds == {1, 2, 3, 4}
\* The users that upload, post, delete and like in the tweet specification.
Posters == {1, 2}
\* The users that like and unlike in the specification with likes.
Likers == {1}
\* Tweet ids a path parameter can carry: every id the sequence can hand out
\* and one more.
TweetIds == 1..(MaxTweets + 1)
MediaIds == 1..MaxMedias
\* One request session at a time (a request owns its session).
Sessions == {1}

\* A request without the api-key header; a header that is there is <<key>>.
NoHeader == <<>>

\* The value of a NULL column (no id is ever 0: sequences start at 1).
NULL == 0

\* Strings are sequences of characters.
Jpg == <<"j", "p", "g">>
Png == <<"p", "n", "g">>
Dot == "."
\* Upload filenames "a.jpg" and "a.b.jpg".
FileNames == { <<"a", Dot>> \o Jpg, <<"a", Dot, "b", Dot>> \o Jpg }
\* An UploadFile: its filename and its size; NoSize is a size of None.
NoSize == -1
Upload(filename, size) == [filename |-> filename, size |-> size]
\* The uploaded file "a.jpg" of one byte.
SmallJpg == Upload(<<"a", Dot>> \o Jpg, 1)
\* Tweet texts.
Texts == {"first", "second"}
\* tweet_media_ids of TweetIn: absent (None) or a list of ids, read by the
\* query only through IN, so a list is modelled by the set of its elements.
NoList == [given |-> FALSE, ids |-> {}]
MediaIdLists == {NoList} \cup {[given |-> TRUE, ids |-> S] : S \in SUBSET MediaIds}

VARIABLES
    tweets,      \* committed rows of table tweets: [id, content, author_id]
    medias,      \* committed rows of table medias: [id, file_type, user_id, tweet_id]
    likes,       \* committed rows of table likes: [user_id, tweet_id]
    subscribes,  \* committed rows of table subscribes: [follower_id, author_id]
    files,       \* the media directory: names <<media_id, file_type>>
    tweet_seq,   \* last value of the tweets id sequence
    media_seq,   \* last value of the medias id sequence
    sess,        \* per session: the handler that runs or has returned in it
    header       \* per session: the api-key header of the request received

vars == <<tweets, medias, likes, subscribes, files, tweet_seq, media_seq, sess,
          header>>

\* ------------------------------------------------------------ the session
NoLocals == [none |-> NULL]
NoSnapshot == [tweets |-> {}, medias |-> {}, likes |-> {}, subscribes |-> {},
               files |-> {}]
Snapshot == [tweets |-> tweets, medias |-> medias, likes |-> likes,
             subscribes |-> subscribes, files |-> files]

\* A session with no request in it.
IdleSession ==
    [pc |-> "idle", op |-> "none", user_id |-> NULL, args |-> [none |-> NULL],
     loc |-> NoLocals, ops |-> {}, ret |-> [none |-> NULL],
     pre |-> NoSnapshot]

\* The session when a handler is entered: `pre` remembers the committed state
\* the call started from.
Enter(op, user_id, args) ==
    [IdleSession EXCEPT !.pc = op, !.op = op, !.user_id = user_id,
                        !.args = args, !.pre = Snapshot]

\* The handler returns `ret`, having issued the storage operations `ops`.
Return(r, ret, ops) ==
    [r EXCEPT !.pc = "done", !.ret = ret, !.ops = r.ops \cup ops]

Init ==
    /\ tweets = {}
    /\ medias = {}
    /\ likes = {}
    /\ subscribes = {}
    /\ files = {}
    /\ tweet_seq = 0
    /\ media_seq = 0
    /\ sess = [s \in Sessions |-> IdleSession]
    /\ header = [s \in Sessions |-> NoHeader]

\* ------------------------------------------------------------------ strings
\* str.split(sep): the pieces of s between the occurrences of sep.
RECURSIVE Split(_, _)
Split(s, sep) ==
    IF \A i \in 1..Len(s) : s[i] # sep
    THEN <<s>>
    ELSE LET i == CHOOSE k \in 1..Len(s) :
                      s[k] = sep /\ \A j \in 1..(k - 1) : s[j] # sep
         IN <<SubSeq(s, 1, i - 1)>> \o Split(SubSeq(s, i + 1, Len(s)), sep)

\* media.filename or ".": an absent or empty filename is read as ".".
FilenameOrDot(filename) == IF filename = <<>> THEN <<Dot>> ELSE filename

\* os.path.join(path, f"{media_id}.{file_type}"): the name in the media
\* directory, the id and the extension on either side of the dot.
MediaPath(media_id, file_type) == <<media_id, Dot, file_type>>

\* --------------------------------------------------------------------- rows
\* Mutant of UserExists: the foreign key into users is not enforced.
UserExistsAlways(id) == TRUE

\* FOREIGN KEY (...) REFERENCES users (id).
UserExists(id) == id \in Users

TweetRow(id, content, author_id) ==
    [id |-> id, content |-> content, author_id |-> author_id]

\* Media(user_id=user_id, file_type=file_type): tweet_id is NULL.
MediaRow(id, file_type, user_id) ==
    [id |-> id, file_type |-> file_type, user_id |-> user_id, tweet_id |-> NULL]

LikeRow(user_id, tweet_id) == [user_id |-> user_id, tweet_id |-> tweet_id]

\* -------------------------------------------------- the session's transaction
\* The uncommitted writes of a session: the Tweet rows inserted, the Media
\* rows whose tweet_id was set and the id it was set to, the Tweet rows
\* deleted.  NoTx is the transaction a session begins with.
NoTx == [ins |-> {}, claim |-> {}, claim_to |-> NULL, del |-> {}]

\* What the statements of a session see: the committed rows with the
\* session's own uncommitted writes applied.  A deleted tweet takes the Media
\* and Like rows that reference it with it (ON DELETE CASCADE).
ViewTweets(tx) == {t \in tweets \cup tx.ins : t.id \notin tx.del}

\* Mutant of ViewLikes: deleting a tweet leaves its Like rows.
ViewLikesNoCascade(tx) == likes

ViewMedias(tx) ==
    {m \in {IF r.id \in tx.claim THEN [r EXCEPT !.tweet_id = tx.claim_to] ELSE r :
            r \in medias} : m.tweet_id \notin tx.del}

ViewLikes(tx) == {l \in likes : l.tweet_id \notin tx.del}

\* -------------------------------------------------------------- statements
\* Mutant of NoMediaIds: `tweet_media_ids is None`, the empty list is a list.
NoMediaIdsOnlyNone(list) == ~list.given

\* `not tweet_media_ids`: None and the empty list.
NoMediaIds(list) == ~list.given \/ list.ids = {}

\* Mutant of MediaClaimRows: the filter on the owner is missing.
MediaClaimRowsAnyOwner(md, user_id, ids) ==
    {m \in md : m.id \in ids /\ m.tweet_id = NULL}

\* Mutant of MediaClaimRows: the filter on the listed ids is missing.
MediaClaimRowsAnyId(md, user_id, ids) ==
    {m \in md : m.user_id = user_id /\ m.tweet_id = NULL}

\* Mutant of MediaClaimRows: the filter on tweet_id IS NULL is missing.
MediaClaimRowsAttachedToo(md, user_id, ids) ==
    {m \in md : m.user_id = user_id /\ m.id \in ids}

\* UPDATE medias SET tweet_id = :tweet_id WHERE user_id = :user_id
\*   AND id IN (:ids) AND tweet_id IS NULL: the rows it updates.
MediaClaimRows(md, user_id, ids) ==
    {m \in md : m.user_id = user_id /\ m.id \in ids /\ m.tweet_id = NULL}

\* Mutant of TweetDeleteRows: the filter on the author is missing.
TweetDeleteRowsAnyAuthor(tw, user_id, tweet_id) == {t \in tw : t.id = tweet_id}

\* DELETE FROM tweets WHERE id = :tweet_id AND author_id = :user_id
TweetDeleteRows(tw, user_id, tweet_id) ==
    {t \in tw : t.id = tweet_id /\ t.author_id = user_id}

\* SELECT * FROM medias WHERE tweet_id = :tweet_id
MediaSelectRows(md, tweet_id) ==
    {m \in md : m.tweet_id # NULL /\ m.tweet_id = tweet_id}

\* Mutant of LikeInsertOk: the primary key is not enforced.
LikeInsertOkNoKey(lk, tw, user_id, tweet_id) ==
    UserExists(user_id) /\ \E t \in tw : t.id = tweet_id

\* Mutant of LikeInsertOk: the foreign key into tweets is not enforced.
LikeInsertOkNoTweet(lk, tw, user_id, tweet_id) ==
    LikeRow(user_id, tweet_id) \notin lk /\ UserExists(user_id)

\* INSERT INTO likes passes the primary key (user_id, tweet_id) and the
\* foreign keys into users and tweets.
LikeInsertOk(lk, tw, user_id, tweet_id) ==
    /\ LikeRow(user_id, tweet_id) \notin lk
    /\ UserExists(user_id)
    /\ \E t \in tw : t.id = tweet_id

\* Mutant of LikeDeleteRows: the filter on the tweet is missing.
LikeDeleteRowsAnyTweet(lk, user_id, tweet_id) ==
    {l \in lk : l.user_id = user_id}

\* DELETE FROM likes WHERE user_id = :user_id AND tweet_id = :tweet_id
LikeDeleteRows(lk, user_id, tweet_id) ==
    {l \in lk : l.user_id = user_id /\ l.tweet_id = tweet_id}

\* schemas.TweetResult: a result without tweet_id is sent with tweet_id -1.
TweetResult(ret) ==
    [result |-> ret.result,
     tweet_id |-> IF "tweet_id" \in DOMAIN ret THEN ret.tweet_id ELSE -1]

\* session.commit(): the session's writes become the committed rows.
Commit(tx) ==
    /\ tweets' = ViewTweets(tx)
    /\ medias' = ViewMedias(tx)
    /\ likes' = ViewLikes(tx)

\* ---------------------------------------------------------------- add_media
\* add_media: the extension is the second of the two pieces of the filename
\* (any other number of pieces raises ValueError before the session is
\* touched); the Media row is inserted and committed, the bytes are written
\* to {media_id}.{file_type} and the id is returned.
AddMedia(s, user_id, media) ==
    /\ sess[s].pc = "idle"
    /\ LET parts == Split(FilenameOrDot(media.filename), Dot)
           r == Enter("add_media", user_id, [media |-> media]) IN
       IF Len(parts) # 2
       THEN /\ sess' = [sess EXCEPT ![s] =
                          Return(r, [error |-> "ValueError"], {})]
            /\ UNCHANGED <<medias, media_seq, files>>
       ELSE /\ media_seq < MaxMedias
            /\ media_seq' = media_seq + 1
            /\ medias' = medias \cup {MediaRow(media_seq + 1, parts[2], user_id)}
            /\ files' = files \cup {MediaPath(media_seq + 1, parts[2])}
            /\ sess' = [sess EXCEPT ![s] =
                          Return(r, [media_id |-> media_seq + 1],
                                 {"insert", "commit"})]
    /\ UNCHANGED <<tweets, likes, subscribes, tweet_seq, header>>

\* --------------------------------------------------------------- check_file
\* SETTINGS.max_image_size, in bytes.
MaxImageSize == 2
\* SETTINGS.media_extensions
MediaExtensions == {Png, Jpg}

\* str.lower() over the letters of the upload names.
LowerChar(c) ==
    IF c = "J" THEN "j" ELSE IF c = "P" THEN "p" ELSE IF c = "G" THEN "g" ELSE c
Lower(str) == [i \in DOMAIN str |-> LowerChar(str[i])]

\* Mutant of SizeRejected: the size is not compared with the maximum.
SizeRejectedOnlyMissing(file_size) == file_size = NoSize \/ file_size = 0

\* `not file_size or file_size > max_size`
SizeRejected(file_size) ==
    file_size = NoSize \/ file_size = 0 \/ file_size > MaxImageSize

\* `*others, extension = filename.split(".")`, and "" without others.
FileExtension(filename) ==
    LET parts == Split(filename, Dot) IN
    IF Len(parts) = 1 THEN <<>> ELSE parts[Len(parts)]

\* `not extension or extension.lower() not in supported_extensions`
ExtensionRejected(extension) ==
    extension = <<>> \/ Lower(extension) \notin MediaExtensions

\* check_file: the details of the HTTPException, by type; none when the file
\* passes.
CheckFile(file) ==
    (IF SizeRejected(file.size) THEN {"value_error"} ELSE {})
    \cup (IF ExtensionRejected(FileExtension(file.filename))
          THEN {"type_error"} ELSE {})

\* POST /medias: the dependency check_file runs before the handler; when it
\* raises, the response is a 422 and add_media is not called.
AddFile(s, user_id, file) ==
    IF CheckFile(file) # {}
    THEN /\ sess[s].pc = "idle"
         /\ sess' = [sess EXCEPT ![s] =
                       Return(Enter("check_file", user_id, [media |-> file]),
                              [status |-> 422, detail |-> CheckFile(file)], {})]
         /\ UNCHANGED <<tweets, medias, likes, subscribes, files, tweet_seq,
                        media_seq, header>>
    ELSE AddMedia(s, user_id, file)

\* ---------------------------------------------------------------- add_tweet
\* The transaction of add_tweet after the flush (the new Tweet row inserted)
\* and, when media ids were given, after the UPDATE that claims the caller's
\* unattached Media rows among them for the new tweet.
AddTweetTx(tweet_id, user_id, tweet_data, tweet_media_ids) ==
    LET flushed == [NoTx EXCEPT !.ins = {TweetRow(tweet_id, tweet_data, user_id)}]
        rows == MediaClaimRows(ViewMedias(flushed), user_id, tweet_media_ids.ids)
    IN IF NoMediaIds(tweet_media_ids)
       THEN flushed
       ELSE [flushed EXCEPT !.claim = {m.id : m \in rows}, !.claim_to = tweet_id]

\* add_tweet: flush the new Tweet row and take its id; without media ids
\* commit; with media ids run the UPDATE, and roll back and return failure
\* when it changed no row, else commit.  Success returns the tweet id.
AddTweet(s, user_id, tweet_data, tweet_media_ids) ==
    /\ sess[s].pc = "idle"
    /\ tweet_seq < MaxTweets
    /\ tweet_seq' = tweet_seq + 1
    /\ LET tweet_id == tweet_seq + 1
           r == Enter("add_tweet", user_id,
                      [tweet_data |-> tweet_data,
                       tweet_media_ids |-> tweet_media_ids])
           tx == AddTweetTx(tweet_id, user_id, tweet_data, tweet_media_ids)
           ok == [result |-> TRUE, tweet_id |-> tweet_id] IN
       IF NoMediaIds(tweet_media_ids)
       THEN /\ Commit(tx)
            /\ sess' = [sess EXCEPT ![s] = Return(r, ok, {"insert", "commit"})]
       ELSE IF Cardinality(tx.claim) = 0
       THEN /\ UNCHANGED <<tweets, medias, likes>>
            /\ sess' = [sess EXCEPT ![s] =
                          Return(r, [result |-> FALSE],
                                 {"insert", "update", "rollback"})]
       ELSE /\ Commit(tx)
            /\ sess' = [sess EXCEPT ![s] =
                          Return(r, ok, {"insert", "update", "commit"})]
    /\ UNCHANGED <<subscribes, files, media_seq, header>>

\* ------------------------------------------------------------- remove_tweet
\* The two tasks of remove_tweet's task group, the DELETE of the tweet and the
\* SELECT of its medias, run on the request's one session, in one
\* transaction, in an order the event loop and the driver decide: the SELECT
\* before the DELETE, the SELECT after the DELETE, or the SELECT not at all
\* because it was cancelled first.
TaskSchedules == {"select_first", "delete_first", "select_cancelled"}

\* The transaction after tweet_task: the rows the DELETE removed.
RemoveTweetTx(user_id, tweet_id) ==
    [NoTx EXCEPT !.del =
        {t.id : t \in TweetDeleteRows(ViewTweets(NoTx), user_id, tweet_id)}]

\* The result of media_task: the Media rows the SELECT saw, which are the
\* rows of the transaction at the time it ran.
MediaTaskRows(schedule, tx, tweet_id) ==
    IF schedule = "select_first" THEN MediaSelectRows(ViewMedias(NoTx), tweet_id)
    ELSE IF schedule = "delete_first" THEN MediaSelectRows(ViewMedias(tx), tweet_id)
    ELSE {}

\* How media_task ended: cancel() ends a task that has not finished as
\* cancelled and leaves a finished one as it is.
MediaTaskOutcome(schedule) ==
    IF schedule = "select_cancelled" THEN "cancelled" ELSE "done"

\* Mutant of TaskGroupExit: a cancelled child is reported like a failed one.
TaskGroupExitCancelIsError(outcomes) ==
    IF outcomes \subseteq {"done"} THEN "normal" ELSE "ExceptionGroup"

\* Leaving `async with asyncio.TaskGroup()` after the children ended with
\* `outcomes`: only children that failed with an exception make the group
\* raise; a cancelled child does not.
TaskGroupExit(outcomes) ==
    IF outcomes \subseteq {"done", "cancelled"} THEN "normal" ELSE "ExceptionGroup"

\* What remove_tweet hands to its caller when the DELETE removed no row:
\* False, unless leaving the task group raises.
NotRemoved(exit) ==
    IF exit = "normal" THEN [result |-> FALSE] ELSE [raised |-> exit]

\* remove_tweet: await the DELETE; when it removed no row cancel the media
\* task and return False (the only place the media task is cancelled);
\* otherwise join the media task, commit, remove the file of every Media row
\* the SELECT returned and return True.
RemoveTweet(s, user_id, tweet_id, schedule) ==
    /\ sess[s].pc = "idle"
    /\ LET tx == RemoveTweetTx(user_id, tweet_id)
           rowcount == Cardinality(tx.del)
           media_rows == MediaTaskRows(schedule, tx, tweet_id)
           r == [Enter("remove_tweet", user_id, [tweet_id |-> tweet_id])
                   EXCEPT !.loc = [schedule |-> schedule,
                                   rowcount |-> rowcount,
                                   media_rows |-> media_rows,
                                   cancel |-> rowcount = 0,
                                   media_task |-> MediaTaskOutcome(schedule)],
                          !.ops = {"delete"} \cup
                                  IF schedule = "select_cancelled"
                                  THEN {} ELSE {"select"}] IN
       /\ schedule = "select_cancelled" => rowcount = 0
       /\ IF rowcount = 0
          THEN /\ UNCHANGED <<tweets, medias, likes, files>>
               /\ sess' = [sess EXCEPT ![s] =
                             Return(r,
                                    NotRemoved(TaskGroupExit(
                                        {"done", MediaTaskOutcome(schedule)})),
                                    {})]
          ELSE /\ Commit(tx)
               /\ files' = files \
                             {MediaPath(m.id, m.file_type) : m \in media_rows}
               /\ sess' = [sess EXCEPT ![s] =
                             Return(r, [result |-> TRUE],
                                    {"commit"} \cup
                                    IF media_rows = {} THEN {} ELSE {"remove"})]
    /\ UNCHANGED <<subscribes, tweet_seq, media_seq, header>>

\* ------------------------------------------------- failures of the storage
\* remove_tweet when every file it removes is there.
RemoveTweetFilesThere(s, user_id, tweet_id, schedule) ==
    /\ \A m \in MediaTaskRows(schedule, RemoveTweetTx(user_id, tweet_id),
                              tweet_id) :
           MediaPath(m.id, m.file_type) \in files
    /\ RemoveTweet(s, user_id, tweet_id, schedule)

\* add_media when opening or writing the file raises: the Media row has been
\* committed by then (the commit is awaited before the file is opened), no
\* handler undoes it, and the exception reaches the caller.
AddMediaWriteFails(s, user_id, media) ==
    /\ sess[s].pc = "idle"
    /\ LET parts == Split(FilenameOrDot(media.filename), Dot)
           r == Enter("add_media", user_id, [media |-> media]) IN
       /\ Len(parts) = 2
       /\ media_seq < MaxMedias
       /\ media_seq' = media_seq + 1
       /\ medias' = medias \cup {MediaRow(media_seq + 1, parts[2], user_id)}
       /\ sess' = [sess EXCEPT ![s] =
                     Return(r, [error |-> "OSError"], {"insert", "commit"})]
    /\ UNCHANGED <<tweets, likes, subscribes, files, tweet_seq, header>>

\* remove_tweet when removing the files `failed` raises (a file that is not
\* there always does): gather hands the first exception to the caller and
\* leaves the commit and the other removals running; the other files are
\* removed, and the commit either completes or is lost when the request's
\* session is closed under it.
RemoveTweetRemoveFails(s, user_id, tweet_id, schedule, failed, committed) ==
    /\ sess[s].pc = "idle"
    /\ LET tx == RemoveTweetTx(user_id, tweet_id)
           rowcount == Cardinality(tx.del)
           media_rows == MediaTaskRows(schedule, tx, tweet_id)
           paths == {MediaPath(m.id, m.file_type) : m \in media_rows}
           r == [Enter("remove_tweet", user_id, [tweet_id |-> tweet_id])
                   EXCEPT !.loc = [schedule |-> schedule,
                                   rowcount |-> rowcount,
                                   media_rows |-> media_rows,
                                   cancel |-> FALSE,
                                   media_task |-> MediaTaskOutcome(schedule)],
                          !.ops = {"delete", "select"}] IN
       /\ schedule # "select_cancelled"
       /\ rowcount # 0
       /\ failed # {}
       /\ failed \subseteq paths
       /\ paths \ files \subseteq failed
       /\ IF committed
          THEN Commit(tx)
          ELSE UNCHANGED <<tweets, medias, likes>>
       /\ files' = files \ (paths \ failed)
       /\ sess' = [sess EXCEPT ![s] =
                     Return(r, [error |-> "OSError"],
                            {"remove"} \cup
                            IF committed THEN {"commit"} ELSE {})]
    /\ UNCHANGED <<subscribes, tweet_seq, media_seq, header>>

\* -------------------------------------------------------------------- likes
\* create_like: add the row and commit; an IntegrityError is rolled back and
\* reported as False.
CreateLike(s, user_id, tweet_id) ==
    /\ sess[s].pc = "idle"
    /\ LET r == Enter("create_like", user_id, [tweet_id |-> tweet_id]) IN
       IF LikeInsertOk(likes, tweets, user_id, tweet_id)
       THEN /\ likes' = likes \cup {LikeRow(user_id, tweet_id)}
            /\ sess' = [sess EXCEPT ![s] =
                          Return(r, [result |-> TRUE], {"insert", "commit"})]
       ELSE /\ UNCHANGED likes
            /\ sess' = [sess EXCEPT ![s] =
                          Return(r, [result |-> FALSE], {"insert", "rollback"})]
    /\ UNCHANGED <<tweets, medias, subscribes, files, tweet_seq, media_seq, header>>

\* remove_like: delete the row, commit and report whether a row was deleted.
RemoveLike(s, user_id, tweet_id) ==
    /\ sess[s].pc = "idle"
    /\ LET r == Enter("remove_like", user_id, [tweet_id |-> tweet_id])
           rows == LikeDeleteRows(likes, user_id, tweet_id) IN
       /\ likes' = likes \ rows
       /\ sess' = [sess EXCEPT ![s] =
                     Return(r, [result |-> Cardinality(rows) # 0],
                            {"delete", "commit"})]
    /\ UNCHANGED <<tweets, medias, subscribes, files, tweet_seq, media_seq, header>>

\* ------------------------------------------------------------- subscribes
\* A Subscribe row.
SubscribeRow(user_id, author_id) ==
    [follower_id |-> user_id, author_id |-> author_id]

\* Mutant of SubscribeInsertOk: the primary key is not enforced.
SubscribeInsertOkNoKey(subs, user_id, author_id) ==
    UserExists(user_id) /\ UserExists(author_id)

\* INSERT INTO subscribes passes the primary key (follower_id, author_id)
\* and both foreign keys into users.
SubscribeInsertOk(subs, user_id, author_id) ==
    /\ SubscribeRow(user_id, author_id) \notin subs
    /\ UserExists(user_id)
    /\ UserExists(author_id)

\* Mutant of SelfAction: the guard is missing.
SelfActionNever(user_id, author_id) == FALSE

\* Mutant of SelfAction: the guard is inverted.
SelfActionInverted(user_id, author_id) == user_id # author_id

\* The guard of add_subscribe and drop_subscribe: user_id == author_id.
SelfAction(user_id, author_id) == user_id = author_id

\* Mutant of SubscribeDeleteRows: the filter on the author is missing.
SubscribeDeleteRowsAnyAuthor(subs, user_id, author_id) ==
    {r \in subs : r.follower_id = user_id}

\* DELETE FROM subscribes WHERE follower_id = :user_id AND author_id = :author_id
SubscribeDeleteRows(subs, user_id, author_id) ==
    {r \in subs : r.follower_id = user_id /\ r.author_id = author_id}

\* ---------------------------------------------------------------- handlers
\* add_subscribe: reject a self-subscribe, else add the row and commit; an
\* IntegrityError is rolled back and reported as False.
AddSubscribe(s, user_id, author_id) ==
    /\ sess[s].pc = "idle"
    /\ LET r == Enter("add_subscribe", user_id, [author_id |-> author_id]) IN
       IF SelfAction(user_id, author_id)
       THEN /\ sess' = [sess EXCEPT ![s] = Return(r, [result |-> FALSE], {})]
            /\ UNCHANGED subscribes
       ELSE IF SubscribeInsertOk(subscribes, user_id, author_id)
       THEN /\ subscribes' = subscribes \cup {SubscribeRow(user_id, author_id)}
            /\ sess' = [sess EXCEPT ![s] =
                          Return(r, [result |-> TRUE], {"insert", "commit"})]
       ELSE /\ UNCHANGED subscribes
            /\ sess' = [sess EXCEPT ![s] =
                          Return(r, [result |-> FALSE], {"insert", "rollback"})]
    /\ UNCHANGED <<tweets, medias, likes, files, tweet_seq, media_seq, header>>

\* drop_subscribe: reject a self-unsubscribe, else delete the row, commit and
\* report whether a row was deleted.
DropSubscribe(s, user_id, author_id) ==
    /\ sess[s].pc = "idle"
    /\ LET r == Enter("drop_subscribe", user_id, [author_id |-> author_id])
           rows == SubscribeDeleteRows(subscribes, user_id, author_id) IN
       IF SelfAction(user_id, author_id)
       THEN /\ sess' = [sess EXCEPT ![s] = Return(r, [result |-> FALSE], {})]
            /\ UNCHANGED subscribes
       ELSE /\ subscribes' = subscribes \ rows
            /\ sess' = [sess EXCEPT ![s] =
                          Return(r, [result |-> Cardinality(rows) # 0],
                                 {"delete", "commit"})]
    /\ UNCHANGED <<tweets, medias, likes, files, tweet_seq, media_seq, header>>

\* --------------------------------------------------------------- the feed
\* The rows of table users: the pre-seeded users and their names.
UserNames == <<"ann", "bob", "eve">>
UserRow(id) == [id |-> id, name |-> UserNames[id]]

\* The NULL-extended side of a LEFT OUTER JOIN row.
NullRow == [null |-> TRUE]

\* A LEFT OUTER JOIN keeps a left row that matches no right row, once, with
\* the right side NULL.
OuterJoin(rows) == IF rows = {} THEN {NullRow} ELSE rows

\* select(Subscribe).filter(or_(follower_id == user_id,
\*                              author_id == user_id)).subquery()
FeedSubQuery(subs, user_id) ==
    {r \in subs : r.follower_id = user_id \/ r.author_id = user_id}

\* FROM tweets LEFT OUTER JOIN sub_query ON tweets.author_id =
\* sub_query.author_id LEFT OUTER JOIN likes ON tweets.id = likes.tweet_id:
\* one row per tweet, matching sub_query row and matching Like row.
FeedJoinRows(tw, subs, lk, user_id) ==
    UNION { { [tweet |-> t, sub |-> r, like |-> l] :
                r \in OuterJoin({x \in FeedSubQuery(subs, user_id) :
                                     x.author_id = t.author_id}),
                l \in OuterJoin({x \in lk : x.tweet_id = t.id}) } : t \in tw }

\* Mutant of FeedFilter: the viewer's own tweets are not selected.
FeedFilterFollowedOnly(row, user_id) ==
    row.sub # NullRow /\ row.sub.follower_id = user_id

\* WHERE sub_query.follower_id = :user_id OR tweets.author_id = :user_id
FeedFilter(row, user_id) ==
    \/ row.sub # NullRow /\ row.sub.follower_id = user_id
    \/ row.tweet.author_id = user_id

\* The joined rows the WHERE clause keeps.
FeedRows(tw, subs, lk, user_id) ==
    {row \in FeedJoinRows(tw, subs, lk, user_id) : FeedFilter(row, user_id)}

\* GROUP BY tweets.id, tweets.author_id, tweets.content: one group per tweet.
FeedGroups(rows) == {row.tweet : row \in rows}

\* count(Tweet.likes): the relationship stands for its join condition
\* tweets.id = likes.tweet_id, and count counts the rows of the group in
\* which it is not NULL, which are the joined rows that carry a Like.
FeedLikeCount(rows, tweet) ==
    Cardinality({row \in rows : row.tweet = tweet /\ row.like # NullRow})

\* ORDER BY count(...) DESC: the groups in an order of descending count; the
\* order among equal counts is the database's choice.
FeedOrders(rows) ==
    LET groups == FeedGroups(rows)
        n == Cardinality(groups) IN
    {f \in [1..n -> groups] :
        /\ \A i, j \in 1..n : i # j => f[i] # f[j]
        /\ \A i, j \in 1..n :
               i < j => FeedLikeCount(rows, f[i]) >= FeedLikeCount(rows, f[j])}

\* tweet.awaitable_attrs.medias: the Media rows that reference the tweet.
TweetMedias(md, tweet) == {m \in md : m.tweet_id = tweet.id}

\* tweet.awaitable_attrs.author: the User row the tweet references.
TweetAuthor(tweet) == UserRow(tweet.author_id)

\* tweet.awaitable_attrs.likes: the Like rows that reference the tweet.
TweetLikes(lk, tweet) == {l \in lk : l.tweet_id = tweet.id}

\* Mutant of LikeUser: the name is taken from the first user.
LikeUserFirst(like) == UserRow(1)

\* like.awaitable_attrs.user: the User row the like references.
LikeUser(like) == UserRow(like.user_id)

\* _like_handler: like.to_dict() with the name of the like's user added by
\* the callback of the user task.
LikeData(like) ==
    [user_id |-> like.user_id, tweet_id |-> like.tweet_id,
     name |-> LikeUser(like).name]

\* The port of the settings, part of every attachment URL.
Port == "port"
\* The base URL the route passes for attachment links.
MediaUrl == [scheme |-> "http", hostname |-> "host", path |-> "/medias"]

\* f"{scheme}://{hostname}:{port}{path}/{media.id}.{media.file_type}"
AttachmentUrl(media_url, media) ==
    <<media_url.scheme, "://", media_url.hostname, ":", Port, media_url.path,
      "/", media.id, Dot, media.file_type>>

\* res["attachments"]: one URL for every Media row of the tweet.  A list
\* built from an unordered load is a bag: each element with the number of
\* rows that produced it.
Attachments(md, tweet, media_url) ==
    LET rows == TweetMedias(md, tweet) IN
    [u \in {AttachmentUrl(media_url, m) : m \in rows} |->
        Cardinality({m \in rows : AttachmentUrl(media_url, m) = u})]

\* res["likes"]: one dictionary for every Like row of the tweet.
LikesData(lk, tweet) ==
    LET rows == TweetLikes(lk, tweet) IN
    [d \in {LikeData(l) : l \in rows} |->
        Cardinality({l \in rows : LikeData(l) = d})]

\* The dictionary get_tweets_info builds for one tweet of the feed.
TweetInfo(tweet, md, lk, media_url) ==
    [id |-> tweet.id, content |-> tweet.content, author_id |-> tweet.author_id,
     attachments |-> Attachments(md, tweet, media_url),
     author |-> TweetAuthor(tweet),
     likes |-> LikesData(lk, tweet)]

\* get_tweets_info: select the viewer's feed in the order of the query, load
\* the medias, the author and the likes of every tweet and the user of every
\* like, and return one dictionary per tweet in the order of the query.
GetTweetsInfo(s, user_id, media_url) ==
    /\ sess[s].pc = "idle"
    /\ \E order \in FeedOrders(FeedRows(tweets, subscribes, likes, user_id)) :
           sess' = [sess EXCEPT ![s] =
                      Return(Enter("get_tweets_info", user_id,
                                   [media_url |-> media_url]),
                             [tweets |->
                                [i \in DOMAIN order |->
                                    TweetInfo(order[i], medias, likes,
                                              media_url)]],
                             {"select"})]
    /\ UNCHANGED <<tweets, medias, likes, subscribes, files, tweet_seq,
                   media_seq, header>>

\* ------------------------------------- get_tweets_info, task by task
\* None in place of a row.
NoRow == [none |-> NULL]

\* The most sub-tasks one task group is given in the runs.
MaxTasks == 6

\* A sub-task: the load of one attribute of one tweet, or of the user of one
\* like.
Task(attr, tweet_id, user_id) ==
    [attr |-> attr, tweet_id |-> tweet_id, user_id |-> user_id]
NoTask == Task("none", NULL, NULL)

\* An entry of the event loop's queue of ready callbacks.
Handle(h, task) == [h |-> h, task |-> task]

\* The tasks the first task group creates: medias, author and likes of
\* every tweet of the query's result.
TweetTasks(order) ==
    {Task(attr, order[i].id, NULL) :
        attr \in {"medias", "author", "likes"}, i \in DOMAIN order}

\* The tasks _like_handler creates: the user of every like of every entry of
\* the likes dictionary, which has the entries the callbacks have written.
UserTasks(order, written, lk) ==
    {Task("user", l.tweet_id, l.user_id) :
        l \in {x \in lk : \E i \in DOMAIN order :
                            /\ x.tweet_id = order[i].id
                            /\ Task("likes", x.tweet_id, NULL) \in written}}

\* A task ends: its done-callbacks are scheduled in the order they were
\* added, the task group's own (added by create_task) before the caller's.
ScheduleCallbacks(ready, task) ==
    ready \o <<Handle("on_task_done", task), Handle("callback", task)>>

\* Mutant of ScheduleWake: the parent runs before the callbacks already
\* scheduled.
ScheduleWakeFirst(ready) == <<Handle("wake", NoTask)>> \o ready

\* The task group's last child is done: the parent's wake-up is scheduled
\* behind the callbacks already in the queue.
ScheduleWake(ready) == Append(ready, Handle("wake", NoTask))

\* like_data after _like_handler: like.to_dict(), with the name when the
\* callback of the user task has run.
LikeEntry(like, written) ==
    IF Task("user", like.tweet_id, like.user_id) \in written
    THEN LikeData(like)
    ELSE [user_id |-> like.user_id, tweet_id |-> like.tweet_id]

\* The merge of get_tweets_info for one tweet: every dictionary is read with
\* a default, [] for medias and likes and None for the author.
MergedInfo(tweet, written, md, lk, media_url) ==
    [id |-> tweet.id, content |-> tweet.content, author_id |-> tweet.author_id,
     attachments |-> IF Task("medias", tweet.id, NULL) \in written
                     THEN Attachments(md, tweet, media_url)
                     ELSE <<>>,
     author |-> IF Task("author", tweet.id, NULL) \in written
                THEN TweetAuthor(tweet)
                ELSE NoRow,
     likes |-> IF Task("likes", tweet.id, NULL) \in written
               THEN LET rows == TweetLikes(lk, tweet) IN
                    [d \in {LikeEntry(l, written) : l \in rows} |->
                        Cardinality({l \in rows : LikeEntry(l, written) = d})]
               ELSE <<>>]

\* The list get_tweets_info returns.
Merged(order, written, md, lk, media_url) ==
    [i \in DOMAIN order |-> MergedInfo(order[i], written, md, lk, media_url)]

\* The locals of get_tweets_info while a task group is open: the tasks that
\* have not ended, the tasks the group still holds, the event loop's ready
\* queue, and the tasks whose callback has written its dictionary entry.
FeedLocals(order, tasks, written) ==
    [order |-> order, running |-> tasks, tg_tasks |-> tasks, ready |-> <<>>,
     written |-> written]

\* get_tweets_info up to the first task group: the query runs and three
\* tasks per tweet are created; with no tweet the result is the empty list.
FeedQuery(s, user_id, media_url) ==
    /\ sess[s].pc = "idle"
    /\ \E order \in FeedOrders(FeedRows(tweets, subscribes, likes, user_id)) :
         LET r == [Enter("get_tweets_info", user_id, [media_url |-> media_url])
                     EXCEPT !.ops = {"select"}]
             tasks == TweetTasks(order) IN
         /\ Cardinality(tasks) <= MaxTasks
         /\ sess' = [sess EXCEPT ![s] =
                       IF tasks = {}
                       THEN Return([r EXCEPT !.loc = FeedLocals(order, {}, {})],
                                   [tweets |-> <<>>], {})
                       ELSE [r EXCEPT !.pc = "tweet_tasks",
                                      !.loc = FeedLocals(order, tasks, {})]]
    /\ UNCHANGED <<tweets, medias, likes, subscribes, files, tweet_seq,
                   media_seq, header>>

\* A sub-task ends, in whatever order the loads complete.
TaskFinishes(s, task) ==
    /\ sess[s].pc \in {"tweet_tasks", "like_tasks"}
    /\ task \in sess[s].loc.running
    /\ sess' = [sess EXCEPT ![s].loc.running = @ \ {task},
                            ![s].loc.ready = ScheduleCallbacks(@, task)]
    /\ UNCHANGED <<tweets, medias, likes, subscribes, files, tweet_seq,
                   media_seq, header>>

\* The event loop runs the first ready callback: the task group drops an
\* ended child and wakes the parent after the last one; a caller's callback
\* writes its dictionary entry; the woken parent leaves the task group, and
\* either enters _like_handler's task group or merges and returns.
RunHandle(s) ==
    /\ sess[s].pc \in {"tweet_tasks", "like_tasks"}
    /\ sess[s].loc.ready # <<>>
    /\ LET head == Head(sess[s].loc.ready)
           rest == Tail(sess[s].loc.ready)
           loc == sess[s].loc
           users == UserTasks(loc.order, loc.written, likes) IN
       sess' = [sess EXCEPT ![s] =
          IF head.h = "on_task_done"
          THEN [sess[s] EXCEPT
                  !.loc.tg_tasks = @ \ {head.task},
                  !.loc.ready = IF loc.tg_tasks \ {head.task} = {}
                                THEN ScheduleWake(rest) ELSE rest]
          ELSE IF head.h = "callback"
          THEN [sess[s] EXCEPT !.loc.written = @ \cup {head.task},
                               !.loc.ready = rest]
          ELSE IF sess[s].pc = "tweet_tasks" /\ users # {}
          THEN [sess[s] EXCEPT !.pc = "like_tasks",
                               !.loc.running = users,
                               !.loc.tg_tasks = users,
                               !.loc.ready = rest]
          ELSE Return([sess[s] EXCEPT !.loc.ready = rest],
                      [tweets |-> Merged(loc.order, loc.written, medias, likes,
                                         sess[s].args.media_url)],
                      {})]
    /\ UNCHANGED <<tweets, medias, likes, subscribes, files, tweet_seq,
                   media_seq, header>>

\* ------------------------------------------------------------ user profile
\* No User object: get_by_id found no row, or the caller passed user=None.
NoUser == [none |-> NULL]

\* get_by_id(id_, User, session): the row with that id, or None.
GetById(id) == IF id \in Users THEN UserRow(id) ELSE NoUser

\* The dictionary get_full_user_info returns when there is no user.
EmptyDict == <<>>

\* Mutant of FollowingRows: the filter is on the author, not the follower.
FollowingRowsOfAuthor(subs, user_id) ==
    {r \in subs : r.author_id = user_id /\ r.follower_id \in Users}

\* query_following: users JOIN subscribes ON users.id = subscribes.author_id
\* WHERE subscribes.follower_id = :user_id, one row per Subscribe row.
FollowingRows(subs, user_id) ==
    {r \in subs : r.follower_id = user_id /\ r.author_id \in Users}

\* query_followers: users JOIN subscribes ON users.id = subscribes.follower_id
\* WHERE subscribes.author_id = :user_id, one row per Subscribe row.
FollowersRows(subs, user_id) ==
    {r \in subs : r.author_id = user_id /\ r.follower_id \in Users}

\* following.scalars().all(): the User of every row of query_following, a
\* list in no particular order.
Following(subs, user_id) ==
    LET rows == FollowingRows(subs, user_id) IN
    [u \in {UserRow(r.author_id) : r \in rows} |->
        Cardinality({r \in rows : UserRow(r.author_id) = u})]

\* followers.scalars().all(): the User of every row of query_followers.
Followers(subs, user_id) ==
    LET rows == FollowersRows(subs, user_id) IN
    [u \in {UserRow(r.follower_id) : r \in rows} |->
        Cardinality({r \in rows : UserRow(r.follower_id) = u})]

\* get_full_user_info: take the User passed in or look it up by id; without
\* a user return the empty dictionary, else the user's fields with the lists
\* of the two queries.
GetFullUserInfo(s, user_id, user) ==
    /\ sess[s].pc = "idle"
    /\ LET r == Enter("get_full_user_info", user_id, [user |-> user])
           found == IF user # NoUser THEN user ELSE GetById(user_id) IN
       IF found = NoUser
       THEN sess' = [sess EXCEPT ![s] = Return(r, EmptyDict, {"select"})]
       ELSE sess' = [sess EXCEPT ![s] =
                Return(r,
                       [id |-> found.id, name |-> found.name,
                        following |-> Following(subscribes, user_id),
                        followers |-> Followers(subscribes, user_id)],
                       {"select"})]
    /\ UNCHANGED <<tweets, medias, likes, subscribes, files, tweet_seq,
                   media_seq, header>>

\* ----------------------------------------------------------- authentication
\* The rows of table api_keys: the keys of the three users and a key that is
\* attached to no user.
ApiKeys ==
    { [id |-> 1, key |-> "key-1"], [id |-> 2, key |-> "key-2"],
      [id |-> 3, key |-> "key-3"], [id |-> 4, key |-> "key-4"] }

\* users.key_id: the ApiKey row of a user.
UserKeyId(id) == id

\* The api-key headers of the requests: none, the keys of two users, the key
\* attached to no user and a key of no ApiKey row.
Headers == {NoHeader, <<"key-1">>, <<"key-2">>, <<"key-4">>, <<"key-9">>}

\* Mutant of GetUserByApiKey: any ApiKey row with that key finds a user.
GetUserByApiKeyAnyRow(api_key) ==
    IF \E k \in ApiKeys : k.key = api_key
    THEN UserRow(CHOOSE u \in Users : TRUE)
    ELSE NoUser

\* crud.get_user_by_api_key: select(User).filter(User.api_key.has(key=...))
\* .first(): the user whose ApiKey row has that key, or None.
GetUserByApiKey(api_key) ==
    LET found == {u \in Users :
                     \E k \in ApiKeys : k.id = UserKeyId(u) /\ k.key = api_key}
    IN IF found = {} THEN NoUser ELSE UserRow(CHOOSE u \in found : TRUE)

\* A request arrives on an idle session with its api-key header.
Receive(s, hdr) ==
    /\ sess[s].pc = "idle"
    /\ header' = [header EXCEPT ![s] = hdr]
    /\ UNCHANGED <<tweets, medias, likes, subscribes, files, tweet_seq,
                   media_seq, sess>>

\* The dependency get_user_by_api_key lets the request through: the header
\* is there and its key finds a user.
Authenticated(s) ==
    /\ header[s] # NoHeader
    /\ GetUserByApiKey(header[s][1]) # NoUser

\* The User the dependency hands to the endpoint.
ApiKeyUser(s) == GetUserByApiKey(header[s][1])

\* The request is rejected with a 422 before the endpoint is called: the
\* header is missing (rejected by the validation of the Header parameter) or
\* its key finds no user (HTTPException of get_user_by_api_key).
AuthRejected(s) ==
    /\ sess[s].pc = "idle"
    /\ ~Authenticated(s)
    /\ sess' = [sess EXCEPT ![s] =
                  Return(Enter("get_user_by_api_key", NULL,
                               [api_key |-> header[s]]),
                         [status |-> 422,
                          detail |-> IF header[s] = NoHeader
                                     THEN "missing" ELSE "assertion_error"],
                         IF header[s] = NoHeader THEN {} ELSE {"select"})]
    /\ UNCHANGED <<tweets, medias, likes, subscribes, files, tweet_seq,
                   media_seq, header>>

\* POST /tweets, POST /tweets/{id}/likes and POST /medias: the endpoint runs
\* as the user of the dependency.
CreateTweet(s, tweet_data, tweet_media_ids) ==
    Authenticated(s) /\ AddTweet(s, ApiKeyUser(s).id, tweet_data, tweet_media_ids)

AddLike(s, tweet_id) ==
    Authenticated(s) /\ CreateLike(s, ApiKeyUser(s).id, tweet_id)

UploadFile(s, file) ==
    Authenticated(s) /\ AddFile(s, ApiKeyUser(s).id, file)

\* ------------------------------------------------- add_tweet, step by step
\* Two requests at a time, each with its own session.
RaceSessions == {1, 2}

\* The sessions other than s that are inside add_tweet after its UPDATE and
\* before its commit: their transactions hold the row locks of the Media rows
\* they updated.
TweetUpdaters(s) ==
    {o \in DOMAIN sess \ {s} : sess[o].op = "add_tweet" /\ sess[o].pc = "updated"}

\* Mutant of MediaRowsLocked: an UPDATE does not wait for the row locks of
\* another transaction.
MediaRowsNeverLocked(s, rows) == FALSE

\* The UPDATE of session s has to wait: a row it would update is locked by
\* the uncommitted UPDATE of another session.
MediaRowsLocked(s, rows) ==
    \E o \in TweetUpdaters(s) : \E m \in rows : m.id \in sess[o].loc.tx.claim

\* add_tweet up to the flush: the Tweet row is inserted in the session's
\* transaction and its id is taken from the sequence.
TweetFlush(s, user_id, tweet_data, tweet_media_ids) ==
    /\ sess[s].pc = "idle"
    /\ tweet_seq < MaxTweets
    /\ tweet_seq' = tweet_seq + 1
    /\ sess' = [sess EXCEPT ![s] =
                  [Enter("add_tweet", user_id,
                         [tweet_data |-> tweet_data,
                          tweet_media_ids |-> tweet_media_ids])
                     EXCEPT !.pc = "flushed",
                            !.ops = {"insert"},
                            !.loc = [tweet_id |-> tweet_seq + 1,
                                     tx |-> [NoTx EXCEPT !.ins =
                                               {TweetRow(tweet_seq + 1,
                                                         tweet_data, user_id)}]]]]
    /\ UNCHANGED <<tweets, medias, likes, subscribes, files, media_seq, header>>

\* add_tweet without media ids: commit and return the tweet id.
TweetCommitNoMedia(s) ==
    /\ sess[s].op = "add_tweet"
    /\ sess[s].pc = "flushed"
    /\ NoMediaIds(sess[s].args.tweet_media_ids)
    /\ Commit(sess[s].loc.tx)
    /\ sess' = [sess EXCEPT ![s] =
                  Return(sess[s],
                         [result |-> TRUE, tweet_id |-> sess[s].loc.tweet_id],
                         {"commit"})]
    /\ UNCHANGED <<subscribes, files, tweet_seq, media_seq, header>>

\* add_tweet's UPDATE: once no row it would update is locked by another
\* transaction, it claims the rows that match in the committed state of that
\* moment and holds their locks.
TweetUpdate(s) ==
    /\ sess[s].op = "add_tweet"
    /\ sess[s].pc = "flushed"
    /\ ~NoMediaIds(sess[s].args.tweet_media_ids)
    /\ ~MediaRowsLocked(s, MediaClaimRows(medias, sess[s].user_id,
                                          sess[s].args.tweet_media_ids.ids))
    /\ sess' = [sess EXCEPT ![s] =
                  [sess[s] EXCEPT
                     !.pc = "updated",
                     !.ops = @ \cup {"update"},
                     !.loc.tx = AddTweetTx(sess[s].loc.tweet_id,
                                           sess[s].user_id,
                                           sess[s].args.tweet_data,
                                           sess[s].args.tweet_media_ids)]]
    /\ UNCHANGED <<tweets, medias, likes, subscribes, files, tweet_seq,
                   media_seq, header>>

\* Mutant of TweetRollback: the transaction is committed although the UPDATE
\* changed no row.
TweetRollbackCommits(s) ==
    /\ sess[s].op = "add_tweet"
    /\ sess[s].pc = "updated"
    /\ Cardinality(sess[s].loc.tx.claim) = 0
    /\ Commit(sess[s].loc.tx)
    /\ sess' = [sess EXCEPT ![s] =
                  Return(sess[s], [result |-> FALSE], {"rollback"})]
    /\ UNCHANGED <<subscribes, files, tweet_seq, media_seq, header>>

\* add_tweet after an UPDATE that changed no row: roll back, return failure.
TweetRollback(s) ==
    /\ sess[s].op = "add_tweet"
    /\ sess[s].pc = "updated"
    /\ Cardinality(sess[s].loc.tx.claim) = 0
    /\ sess' = [sess EXCEPT ![s] =
                  Return(sess[s], [result |-> FALSE], {"rollback"})]
    /\ UNCHANGED <<tweets, medias, likes, subscribes, files, tweet_seq,
                   media_seq, header>>

\* add_tweet after an UPDATE that changed rows: commit, return the tweet id.
TweetCommit(s) ==
    /\ sess[s].op = "add_tweet"
    /\ sess[s].pc = "updated"
    /\ Cardinality(sess[s].loc.tx.claim) # 0
    /\ Commit(sess[s].loc.tx)
    /\ sess' = [sess EXCEPT ![s] =
                  Return(sess[s],
                         [result |-> TRUE, tweet_id |-> sess[s].loc.tweet_id],
                         {"commit"})]
    /\ UNCHANGED <<subscribes, files, tweet_seq, media_seq, header>>

\* get_by_id(id_, Tweet, session) of a request: the committed row, or None.
GetTweetById(s, tweet_id) ==
    /\ sess[s].pc = "idle"
    /\ sess' = [sess EXCEPT ![s] =
                  Return(Enter("get_by_id", NULL, [id |-> tweet_id]),
                         [row |-> IF \E t \in tweets : t.id = tweet_id
                                  THEN CHOOSE t \in tweets : t.id = tweet_id
                                  ELSE NoRow],
                         {"select"})]
    /\ UNCHANGED <<tweets, medias, likes, subscribes, files, tweet_seq,
                   media_seq, header>>

\* ------------------------------- create_like and add_subscribe, step by step
\* Mutant of KeyLocked: an INSERT does not wait for the uncommitted INSERT of
\* the same key by another transaction.
KeyNeverLocked(s, op, user_id, args) == FALSE

\* The INSERT of session s has to wait: another session has inserted the same
\* key and has not committed or rolled back yet.
KeyLocked(s, op, user_id, args) ==
    \E o \in DOMAIN sess \ {s} :
        /\ sess[o].op = op
        /\ sess[o].pc = "inserted"
        /\ sess[o].user_id = user_id
        /\ sess[o].args = args

\* create_like up to session.add(like): nothing has reached the database.
LikeAdd(s, user_id, tweet_id) ==
    /\ sess[s].pc = "idle"
    /\ sess' = [sess EXCEPT ![s] =
                  [Enter("create_like", user_id, [tweet_id |-> tweet_id])
                     EXCEPT !.pc = "added"]]
    /\ UNCHANGED <<tweets, medias, likes, subscribes, files, tweet_seq,
                   media_seq, header>>

\* The INSERT that commit() flushes: it waits for an uncommitted INSERT of
\* the same key, then either succeeds inside the transaction or raises
\* IntegrityError.
LikeInsert(s) ==
    /\ sess[s].op = "create_like"
    /\ sess[s].pc = "added"
    /\ ~KeyLocked(s, "create_like", sess[s].user_id, sess[s].args)
    /\ sess' = [sess EXCEPT ![s] =
                  [sess[s] EXCEPT
                     !.pc = IF LikeInsertOk(likes, tweets, sess[s].user_id,
                                            sess[s].args.tweet_id)
                            THEN "inserted" ELSE "integrity_error",
                     !.ops = @ \cup {"insert"}]]
    /\ UNCHANGED <<tweets, medias, likes, subscribes, files, tweet_seq,
                   media_seq, header>>

\* The transaction commits: the Like row becomes visible and the call
\* returns True.
LikeCommit(s) ==
    /\ sess[s].op = "create_like"
    /\ sess[s].pc = "inserted"
    /\ likes' = likes \cup {LikeRow(sess[s].user_id, sess[s].args.tweet_id)}
    /\ sess' = [sess EXCEPT ![s] =
                  Return(sess[s], [result |-> TRUE], {"commit"})]
    /\ UNCHANGED <<tweets, medias, subscribes, files, tweet_seq, media_seq,
                   header>>

\* except IntegrityError: roll back and return False.
LikeRollback(s) ==
    /\ sess[s].op = "create_like"
    /\ sess[s].pc = "integrity_error"
    /\ sess' = [sess EXCEPT ![s] =
                  Return(sess[s], [result |-> FALSE], {"rollback"})]
    /\ UNCHANGED <<tweets, medias, likes, subscribes, files, tweet_seq,
                   media_seq, header>>

\* add_subscribe up to session.add(subscribe); a self-subscribe returns
\* False at once.
SubscribeAdd(s, user_id, author_id) ==
    /\ sess[s].pc = "idle"
    /\ LET r == Enter("add_subscribe", user_id, [author_id |-> author_id]) IN
       sess' = [sess EXCEPT ![s] =
                  IF SelfAction(user_id, author_id)
                  THEN Return(r, [result |-> FALSE], {})
                  ELSE [r EXCEPT !.pc = "added"]]
    /\ UNCHANGED <<tweets, medias, likes, subscribes, files, tweet_seq,
                   media_seq, header>>

\* The INSERT that commit() flushes, as for create_like.
SubscribeInsert(s) ==
    /\ sess[s].op = "add_subscribe"
    /\ sess[s].pc = "added"
    /\ ~KeyLocked(s, "add_subscribe", sess[s].user_id, sess[s].args)
    /\ sess' = [sess EXCEPT ![s] =
                  [sess[s] EXCEPT
                     !.pc = IF SubscribeInsertOk(subscribes, sess[s].user_id,
                                                 sess[s].args.author_id)
                            THEN "inserted" ELSE "integrity_error",
                     !.ops = @ \cup {"insert"}]]
    /\ UNCHANGED <<tweets, medias, likes, subscribes, files, tweet_seq,
                   media_seq, header>>

\* The transaction commits: the Subscribe row becomes visible and the call
\* returns True.
SubscribeCommit(s) ==
    /\ sess[s].op = "add_subscribe"
    /\ sess[s].pc = "inserted"
    /\ subscribes' = subscribes
                       \cup {SubscribeRow(sess[s].user_id, sess[s].args.author_id)}
    /\ sess' = [sess EXCEPT ![s] =
                  Return(sess[s], [result |-> TRUE], {"commit"})]
    /\ UNCHANGED <<tweets, medias, likes, files, tweet_seq, media_seq, header>>

\* except IntegrityError: roll back and return False.
SubscribeRollback(s) ==
    /\ sess[s].op = "add_subscribe"
    /\ sess[s].pc = "integrity_error"
    /\ sess' = [sess EXCEPT ![s] =
                  Return(sess[s], [result |-> FALSE], {"rollback"})]
    /\ UNCHANGED <<tweets, medias, likes, subscribes, files, tweet_seq,
                   media_seq, header>>

\* Two sessions, no request in either.
InitRace ==
    /\ tweets = {}
    /\ medias = {}
    /\ likes = {}
    /\ subscribes = {}
    /\ files = {}
    /\ tweet_seq = 0
    /\ media_seq = 0
    /\ sess = [s \in RaceSessions |-> IdleSession]
    /\ header = [s \in RaceSessions |-> NoHeader]

\* The request ends: the response is sent and the session is closed, which
\* discards a transaction that was neither committed nor rolled back.
Respond(s) ==
    /\ sess[s].pc = "done"
    /\ sess' = [sess EXCEPT ![s] = IdleSession]
    /\ UNCHANGED <<tweets, medias, likes, subscribes, files, tweet_seq, media_seq, header>>

\* ------------------------------------------------------------ specification
\* The follow endpoints: the caller is the authenticated user, the author id
\* is the path parameter.
NextSubscribe ==
    \E s \in Sessions :
        \/ \E u \in Users, a \in UserIds : AddSubscribe(s, u, a)
        \/ \E u \in Users, a \in UserIds : DropSubscribe(s, u, a)
        \/ Respond(s)

SpecSubscribe == Init /\ [][NextSubscribe]_vars

\* The media and tweet endpoints: the caller is the authenticated user.
Next ==
    \E s \in Sessions :
        \/ \E u \in Posters, f \in FileNames : AddMedia(s, u, Upload(f, 1))
        \/ \E u \in Posters, x \in Texts, l \in MediaIdLists : AddTweet(s, u, x, l)
        \/ \E u \in Posters, t \in TweetIds, o \in TaskSchedules :
               RemoveTweet(s, u, t, o)
        \/ Respond(s)

Spec == Init /\ [][Next]_vars

\* The media, tweet and like endpoints together, with one text, one
\* filename and one user who likes.
NextLikes ==
    \E s \in Sessions :
        \/ \E u \in Posters : AddMedia(s, u, SmallJpg)
        \/ \E u \in Posters, l \in MediaIdLists : AddTweet(s, u, "first", l)
        \/ \E u \in Posters, t \in TweetIds, o \in TaskSchedules :
               RemoveTweet(s, u, t, o)
        \/ \E u \in Likers, t \in TweetIds : CreateLike(s, u, t)
        \/ \E u \in Likers, t \in TweetIds : RemoveLike(s, u, t)
        \/ Respond(s)

SpecLikes == Init /\ [][NextLikes]_vars

\* The feed over tweets, likes and follow edges: every user likes and reads
\* the feed, the posters post and are followed.
NextFeed ==
    \E s \in Sessions :
        \/ \E u \in Posters : AddTweet(s, u, "first", NoList)
        \/ \E u \in Users, t \in TweetIds : CreateLike(s, u, t)
        \/ \E u \in Users, a \in Posters : AddSubscribe(s, u, a)
        \/ \E u \in Users : GetTweetsInfo(s, u, MediaUrl)
        \/ Respond(s)

SpecFeed == Init /\ [][NextFeed]_vars

\* The feed over tweets with attachments: one author uploads and posts with
\* media lists, one user follows the author, both like and read the feed.
FeedAuthors == {2}
FeedFollowers == {1}
NextFeedMedia ==
    \E s \in Sessions :
        \/ \E u \in FeedAuthors : AddMedia(s, u, SmallJpg)
        \/ \E u \in FeedAuthors, l \in MediaIdLists : AddTweet(s, u, "first", l)
        \/ \E u \in Posters, t \in TweetIds : CreateLike(s, u, t)
        \/ \E u \in FeedFollowers, a \in FeedAuthors : AddSubscribe(s, u, a)
        \/ \E u \in Posters : GetTweetsInfo(s, u, MediaUrl)
        \/ Respond(s)

SpecFeedMedia == Init /\ [][NextFeedMedia]_vars

\* The user endpoints: follow, unfollow, the profile by id (no User passed)
\* and the caller's own profile (the authenticated User passed).
NextUsers ==
    \E s \in Sessions :
        \/ \E u \in Users, a \in UserIds : AddSubscribe(s, u, a)
        \/ \E u \in Users, a \in UserIds : DropSubscribe(s, u, a)
        \/ \E i \in UserIds : GetFullUserInfo(s, i, NoUser)
        \/ \E u \in Users : GetFullUserInfo(s, u, UserRow(u))
        \/ Respond(s)

SpecUsers == Init /\ [][NextUsers]_vars

\* The names and sizes of uploads: "a.jpg", "a.b.jpg", "a.JPG", "a.txt",
\* "a", "a." and the empty name; no size, no byte, one byte, the maximum and
\* one byte more.
UploadNames ==
    { <<"a", Dot>> \o Jpg, <<"a", Dot, "b", Dot>> \o Jpg,
      <<"a", Dot, "J", "P", "G">>, <<"a", Dot, "t", "x", "t">>,
      <<"a">>, <<"a", Dot>>, <<>> }
UploadSizes == {NoSize, 0, 1, MaxImageSize, MaxImageSize + 1}

\* The upload endpoint, called by the posters.
NextUpload ==
    \E s \in Sessions :
        \/ \E u \in Posters, n \in UploadNames, z \in UploadSizes :
               AddFile(s, u, Upload(n, z))
        \/ Respond(s)

SpecUpload == Init /\ [][NextUpload]_vars

\* Requests with every api-key header to the tweet, like and upload
\* endpoints.
NextAuth ==
    \E s \in Sessions :
        \/ \E h \in Headers : Receive(s, h)
        \/ AuthRejected(s)
        \/ CreateTweet(s, "first", NoList)
        \/ \E t \in TweetIds : AddLike(s, t)
        \/ UploadFile(s, SmallJpg)
        \/ Respond(s)

SpecAuth == Init /\ [][NextAuth]_vars

\* Two requests at a time: one user uploads and posts, with and without
\* media ids, while requests read tweets by id and read the feed.
NextTweetRace ==
    \E s \in RaceSessions :
        \/ \E u \in Likers : AddMedia(s, u, SmallJpg)
        \/ \E u \in Likers, l \in MediaIdLists : TweetFlush(s, u, "first", l)
        \/ TweetCommitNoMedia(s)
        \/ TweetUpdate(s)
        \/ TweetRollback(s)
        \/ TweetCommit(s)
        \/ \E t \in TweetIds : GetTweetById(s, t)
        \/ \E u \in Likers : GetTweetsInfo(s, u, MediaUrl)
        \/ Respond(s)

SpecTweetRace == InitRace /\ [][NextTweetRace]_vars

\* Two requests at a time: one user posts, and another likes tweets and
\* subscribes to authors (also to itself), also the same pair in both requests.
NextLikeRace ==
    \E s \in RaceSessions :
        \/ \E u \in FeedAuthors : AddTweet(s, u, "first", NoList)
        \/ \E u \in Likers, t \in TweetIds : LikeAdd(s, u, t)
        \/ LikeInsert(s)
        \/ LikeCommit(s)
        \/ LikeRollback(s)
        \/ \E u \in Likers, a \in Posters : SubscribeAdd(s, u, a)
        \/ SubscribeInsert(s)
        \/ SubscribeCommit(s)
        \/ SubscribeRollback(s)
        \/ Respond(s)

SpecLikeRace == InitRace /\ [][NextLikeRace]_vars

\* The feed task by task: one author posts, two users like, and the author
\* reads the feed while the loads of its sub-tasks end in any order.
NextFeedTasks ==
    \E s \in Sessions :
        \/ \E u \in FeedAuthors : AddTweet(s, u, "first", NoList)
        \/ \E u \in Posters, t \in TweetIds : CreateLike(s, u, t)
        \/ \E u \in FeedAuthors : FeedQuery(s, u, MediaUrl)
        \/ \E attr \in {"medias", "author", "likes", "user"},
              t \in TweetIds, u \in {NULL} \cup Posters :
                TaskFinishes(s, Task(attr, t, u))
        \/ RunHandle(s)
        \/ Respond(s)

SpecFeedTasks == Init /\ [][NextFeedTasks]_vars

\* Every operation that writes: one author uploads, posts and removes, one
\* user and one id of no user like, unlike, follow and unfollow, also an id
\* of no user.
Strangers == UserIds \ Users
NextAll ==
    \E s \in Sessions :
        \/ \E u \in FeedAuthors : AddMedia(s, u, SmallJpg)
        \/ \E u \in FeedAuthors, l \in MediaIdLists : AddTweet(s, u, "first", l)
        \/ \E u \in FeedAuthors, t \in TweetIds, o \in TaskSchedules :
               RemoveTweet(s, u, t, o)
        \/ \E u \in Likers \cup Strangers, t \in TweetIds : CreateLike(s, u, t)
        \/ \E u \in Likers, t \in TweetIds : RemoveLike(s, u, t)
        \/ \E u \in Likers \cup Strangers, a \in FeedAuthors \cup Strangers :
               AddSubscribe(s, u, a)
        \/ \E u \in Likers, a \in FeedAuthors : DropSubscribe(s, u, a)
        \/ Respond(s)

SpecAll == Init /\ [][NextAll]_vars

\* The media directory can fail: one author uploads, posts and removes, and
\* a file write or a file removal may raise.
NextFaults ==
    \E s \in Sessions :
        \/ \E u \in FeedAuthors : AddMedia(s, u, SmallJpg)
        \/ \E u \in FeedAuthors : AddMediaWriteFails(s, u, SmallJpg)
        \/ \E u \in FeedAuthors, l \in MediaIdLists : AddTweet(s, u, "first", l)
        \/ \E u \in FeedAuthors, t \in TweetIds, o \in TaskSchedules :
               RemoveTweetFilesThere(s, u, t, o)
        \/ \E u \in FeedAuthors, t \in TweetIds, o \in TaskSchedules,
              failed \in SUBSET {MediaPath(i, Jpg) : i \in MediaIds},
              committed \in BOOLEAN :
               RemoveTweetRemoveFails(s, u, t, o, failed, committed)
        \/ Respond(s)

SpecFaults == Init /\ [][NextFaults]_vars

\* ================================================================== claims
\* The handler `op` has returned in session s and the response is not yet
\* sent: sess[s].pre is the committed state the call started from.
Returned(s, op) == sess[s].pc = "done" /\ sess[s].op = op

\* The Media rows of `md` that add_tweet may claim for user_id out of ids:
\* owned by user_id, listed, and unattached.
Claimable(md, user_id, ids) ==
    {m \in md : m.id \in ids /\ m.user_id = user_id /\ m.tweet_id = NULL}

\* C1 (as claimed): after remove_tweet called by the tweet's author returns
\* true, the Tweet row is gone and the file {media_id}.{file_type} of every
\* Media row attached to the tweet before the call has been removed, whatever
\* the order of the tweet-delete and media-lookup tasks.
C1_OwnerRemoveDeletesFiles ==
    \A s \in Sessions :
        ( /\ Returned(s, "remove_tweet")
          /\ \E t \in sess[s].pre.tweets :
                 t.id = sess[s].args.tweet_id /\ t.author_id = sess[s].user_id
          /\ sess[s].ret.result = TRUE )
        => /\ \A t \in tweets : t.id # sess[s].args.tweet_id
           /\ \A m \in sess[s].pre.medias :
                  m.tweet_id = sess[s].args.tweet_id
                  => <<m.id, Dot, m.file_type>> \notin files

\* C2, first part: remove_tweet returns false whenever no Tweet row has both
\* id = tweet_id and author_id = user_id, and then the Tweet, Media and Like
\* tables and the stored files are as they were before the call.
C2_Frame ==
    \A s \in Sessions :
        ( /\ Returned(s, "remove_tweet")
          /\ ~ \E t \in sess[s].pre.tweets :
                   t.id = sess[s].args.tweet_id /\ t.author_id = sess[s].user_id )
        => /\ sess[s].ret.result = FALSE
           /\ tweets = sess[s].pre.tweets
           /\ medias = sess[s].pre.medias
           /\ likes = sess[s].pre.likes
           /\ files = sess[s].pre.files

\* C2, second part: a step that removes a Tweet row is the step of a
\* remove_tweet call made by the row's author for that tweet.
C2_OnlyAuthorDeletes ==
    \A t \in tweets :
        t \notin tweets'
        => \E s \in Sessions :
               /\ sess'[s].pc = "done"
               /\ sess'[s].op = "remove_tweet"
               /\ sess'[s].user_id = t.author_id
               /\ sess'[s].args.tweet_id = t.id

\* C2: remove_tweet returns false and changes nothing when the tweet is absent
\* or owned by someone else; over any sequence of operations a tweet is only
\* ever deleted by a remove_tweet call of its own author.
C2_NonOwnerRemoveChangesNothing == [](C2_Frame) /\ [][C2_OnlyAuthorDeletes]_vars

\* C2 witness: a remove_tweet by a user who is not the author of the existing
\* tweet, which has a Media row and a Like row, has returned false.
C2_Witness ==
    \E s \in Sessions :
        /\ Returned(s, "remove_tweet")
        /\ sess[s].ret.result = FALSE
        /\ \E t \in tweets :
               t.id = sess[s].args.tweet_id /\ t.author_id # sess[s].user_id
        /\ \E m \in medias : m.tweet_id = sess[s].args.tweet_id
        /\ \E l \in likes : l.tweet_id = sess[s].args.tweet_id

\* C3: add_tweet with a non-empty media id list in which no id names a Media
\* row owned by the caller and unattached returns result false, sent as
\* tweet_id -1, and afterwards no new Tweet row is persisted and no Media row
\* has changed.
C3_NoClaimableMediaFails ==
    \A s \in Sessions :
        ( /\ Returned(s, "add_tweet")
          /\ sess[s].args.tweet_media_ids.given
          /\ sess[s].args.tweet_media_ids.ids # {}
          /\ Claimable(sess[s].pre.medias, sess[s].user_id,
                       sess[s].args.tweet_media_ids.ids) = {} )
        => /\ sess[s].ret.result = FALSE
           /\ TweetResult(sess[s].ret).tweet_id = -1
           /\ tweets = sess[s].pre.tweets
           /\ medias = sess[s].pre.medias

\* C3 witness: an add_tweet that listed only Media rows that exist but belong
\* to another user or are attached already has returned.
C3_Witness ==
    \E s \in Sessions :
        /\ Returned(s, "add_tweet")
        /\ sess[s].args.tweet_media_ids.ids # {}
        /\ \A i \in sess[s].args.tweet_media_ids.ids :
               \E m \in sess[s].pre.medias :
                   m.id = i /\ (m.user_id # sess[s].user_id \/ m.tweet_id # NULL)
        /\ \E m \in sess[s].pre.medias :
               m.id \in sess[s].args.tweet_media_ids.ids
               /\ m.user_id # sess[s].user_id
        /\ sess[s].ret.result = FALSE

\* C4: add_tweet with at least one listed id naming a Media row owned by the
\* caller and unattached returns result true with a new tweet id, persists
\* the Tweet with author_id = user_id, sets tweet_id to the new id on exactly
\* the Media rows that are owned by the caller, listed and unattached, and
\* leaves every other Media row unchanged.
C4_ClaimsExactlyOwnListedUnattached ==
    \A s \in Sessions :
        ( /\ Returned(s, "add_tweet")
          /\ Claimable(sess[s].pre.medias, sess[s].user_id,
                       sess[s].args.tweet_media_ids.ids) # {} )
        => /\ sess[s].ret.result = TRUE
           /\ \A t \in sess[s].pre.tweets : t.id # sess[s].ret.tweet_id
           /\ tweets = sess[s].pre.tweets \cup
                         {[id |-> sess[s].ret.tweet_id,
                           content |-> sess[s].args.tweet_data,
                           author_id |-> sess[s].user_id]}
           /\ medias =
                {IF m \in Claimable(sess[s].pre.medias, sess[s].user_id,
                                    sess[s].args.tweet_media_ids.ids)
                 THEN [m EXCEPT !.tweet_id = sess[s].ret.tweet_id]
                 ELSE m : m \in sess[s].pre.medias}

\* C4 witness: an add_tweet that listed one Media row it could claim and one
\* it could not has returned.
C4_Witness ==
    \E s \in Sessions :
        /\ Returned(s, "add_tweet")
        /\ sess[s].ret.result = TRUE
        /\ \E m \in sess[s].pre.medias :
               /\ m.id \in sess[s].args.tweet_media_ids.ids
               /\ m.user_id = sess[s].user_id
               /\ m.tweet_id = NULL
        /\ \E m \in sess[s].pre.medias :
               /\ m.id \in sess[s].args.tweet_media_ids.ids
               /\ m.user_id # sess[s].user_id
        /\ \E m \in medias :
               m.tweet_id # NULL /\ m.tweet_id = sess[s].ret.tweet_id

\* C5: add_tweet with an empty or absent media id list always commits and
\* returns result true with the id of a newly persisted Tweet whose author is
\* the caller and whose content is the text, and changes no Media row.
C5_NoMediaAlwaysCommits ==
    \A s \in Sessions :
        ( /\ Returned(s, "add_tweet")
          /\ (~sess[s].args.tweet_media_ids.given
              \/ sess[s].args.tweet_media_ids.ids = {}) )
        => /\ sess[s].ret.result = TRUE
           /\ "commit" \in sess[s].ops
           /\ \A t \in sess[s].pre.tweets : t.id # sess[s].ret.tweet_id
           /\ tweets = sess[s].pre.tweets \cup
                         {[id |-> sess[s].ret.tweet_id,
                           content |-> sess[s].args.tweet_data,
                           author_id |-> sess[s].user_id]}
           /\ medias = sess[s].pre.medias

\* C5 witness: an add_tweet with the empty list, by a user who has an
\* unattached Media row, has returned.
C5_Witness ==
    \E s \in Sessions :
        /\ Returned(s, "add_tweet")
        /\ sess[s].args.tweet_media_ids.given
        /\ sess[s].args.tweet_media_ids.ids = {}
        /\ sess[s].args.tweet_data = "second"
        /\ \E m \in medias : m.user_id = sess[s].user_id /\ m.tweet_id = NULL
        /\ \E t \in tweets : t.id = sess[s].ret.tweet_id

\* C6: once a Media row's tweet_id is set, no step gives it a different value
\* for as long as the row exists.
C6_TweetIdSetOnce ==
    [][\A m \in medias :
           m.tweet_id # NULL
           => \A n \in medias' : n.id = m.id => n.tweet_id = m.tweet_id]_vars

\* C6 witness: an add_tweet by the owner of an attached Media row that listed
\* that row again has returned true, and the row is still there.
C6_Witness ==
    \E s \in Sessions :
        /\ Returned(s, "add_tweet")
        /\ sess[s].ret.result = TRUE
        /\ \E m \in sess[s].pre.medias :
               /\ m.tweet_id # NULL
               /\ m.id \in sess[s].args.tweet_media_ids.ids
               /\ m.user_id = sess[s].user_id
               /\ m \in medias

\* C7: for follower # author with author an existing user, an add_subscribe
\* that finds no such edge returns true and persists exactly that one row; an
\* add_subscribe that finds the edge (the second identical call) is rolled
\* back, returns false and leaves every row as it was.
C7_SubscribeOnce ==
    \A s \in Sessions :
        ( /\ Returned(s, "add_subscribe")
          /\ sess[s].user_id # sess[s].args.author_id
          /\ sess[s].args.author_id \in Users )
        => LET edge == [follower_id |-> sess[s].user_id,
                        author_id |-> sess[s].args.author_id] IN
           IF edge \notin sess[s].pre.subscribes
           THEN /\ sess[s].ret.result = TRUE
                /\ subscribes = sess[s].pre.subscribes \cup {edge}
                /\ Cardinality(subscribes) =
                       Cardinality(sess[s].pre.subscribes) + 1
           ELSE /\ sess[s].ret.result = FALSE
                /\ "rollback" \in sess[s].ops
                /\ subscribes = sess[s].pre.subscribes

\* C7 witness: the second identical add_subscribe has returned, with other
\* edges persisted beside the one it asked for.
C7_Witness ==
    \E s \in Sessions :
        /\ Returned(s, "add_subscribe")
        /\ [follower_id |-> sess[s].user_id,
            author_id |-> sess[s].args.author_id] \in sess[s].pre.subscribes
        /\ Cardinality(subscribes) > 1
        /\ sess[s].ret.result = FALSE

\* C8: add_subscribe(x, x) and drop_subscribe(x, x) return false without
\* issuing any storage operation, so the persisted state is unchanged.
C8_SelfActionTouchesNothing ==
    \A s \in Sessions :
        ( /\ Returned(s, "add_subscribe") \/ Returned(s, "drop_subscribe")
          /\ sess[s].user_id = sess[s].args.author_id )
        => /\ sess[s].ret.result = FALSE
           /\ sess[s].ops = {}
           /\ subscribes = sess[s].pre.subscribes

\* C8 witness: a drop_subscribe(x, x) has returned while x follows somebody
\* and is followed.
C8_Witness ==
    \E s \in Sessions :
        /\ Returned(s, "drop_subscribe")
        /\ sess[s].user_id = sess[s].args.author_id
        /\ \E r \in subscribes : r.follower_id = sess[s].user_id
        /\ \E r \in subscribes : r.author_id = sess[s].user_id

\* C9: no persisted Subscribe row has follower_id = author_id.
C9_NoSelfFollow == \A r \in subscribes : r.follower_id # r.author_id

\* C9 witness: an add_subscribe(x, x) has returned while Subscribe rows are
\* persisted.
C9_Witness ==
    \E s \in Sessions :
        /\ Returned(s, "add_subscribe")
        /\ sess[s].user_id = sess[s].args.author_id
        /\ subscribes # {}

\* C10: add_subscribe to an author id of no existing user returns false
\* (the foreign-key violation is caught and rolled back, not raised) and
\* persists no Subscribe row.
C10_SubscribeToNobodyFails ==
    \A s \in Sessions :
        ( /\ Returned(s, "add_subscribe")
          /\ sess[s].args.author_id \notin Users )
        => /\ sess[s].ret = [result |-> FALSE]
           /\ "rollback" \in sess[s].ops
           /\ subscribes = sess[s].pre.subscribes
           /\ \A r \in subscribes : r.author_id # sess[s].args.author_id

\* C10 witness: an add_subscribe to the id of no user has returned.
C10_Witness ==
    \E s \in Sessions :
        /\ Returned(s, "add_subscribe")
        /\ sess[s].args.author_id \notin Users
        /\ sess[s].user_id \in Users

\* C11: drop_subscribe(follower, author) with follower # author returns true
\* exactly when the Subscribe row (follower, author) was persisted before the
\* call; afterwards that row is absent and every other Subscribe row is as it
\* was, so a repeated drop_subscribe finds no row and returns false.
C11_DropRemovesExactlyTheEdge ==
    \A s \in Sessions :
        ( /\ Returned(s, "drop_subscribe")
          /\ sess[s].user_id # sess[s].args.author_id )
        => LET edge == [follower_id |-> sess[s].user_id,
                        author_id |-> sess[s].args.author_id] IN
           /\ sess[s].ret.result = (edge \in sess[s].pre.subscribes)
           /\ edge \notin subscribes
           /\ subscribes = sess[s].pre.subscribes \ {edge}

\* C11 witness: a drop_subscribe of a persisted edge has returned true while
\* the follower still follows another author and the author still has another
\* follower.
C11_Witness ==
    \E s \in Sessions :
        /\ Returned(s, "drop_subscribe")
        /\ sess[s].ret.result = TRUE
        /\ [follower_id |-> sess[s].user_id,
            author_id |-> sess[s].args.author_id] \in sess[s].pre.subscribes
        /\ \E r \in subscribes : r.follower_id = sess[s].user_id
        /\ \E r \in subscribes : r.author_id = sess[s].args.author_id

\* C12: for an existing user and an existing tweet, a create_like that finds
\* no Like row for the pair returns true and persists exactly that one row; a
\* create_like that finds the row (the second identical call) is rolled back,
\* returns false and leaves the one row as it was.
C12_LikeOnce ==
    \A s \in Sessions :
        ( /\ Returned(s, "create_like")
          /\ sess[s].user_id \in Users
          /\ \E t \in sess[s].pre.tweets : t.id = sess[s].args.tweet_id )
        => LET row == [user_id |-> sess[s].user_id,
                       tweet_id |-> sess[s].args.tweet_id] IN
           IF row \notin sess[s].pre.likes
           THEN /\ sess[s].ret.result = TRUE
                /\ likes = sess[s].pre.likes \cup {row}
                /\ Cardinality(likes) = Cardinality(sess[s].pre.likes) + 1
           ELSE /\ sess[s].ret.result = FALSE
                /\ "rollback" \in sess[s].ops
                /\ likes = sess[s].pre.likes

\* C12 witness: the second identical create_like has returned false, the row
\* of the first still persisted.
C12_Witness ==
    \E s \in Sessions :
        /\ Returned(s, "create_like")
        /\ sess[s].ret.result = FALSE
        /\ \E t \in tweets : t.id = sess[s].args.tweet_id
        /\ [user_id |-> sess[s].user_id,
            tweet_id |-> sess[s].args.tweet_id] \in sess[s].pre.likes
        /\ [user_id |-> sess[s].user_id,
            tweet_id |-> sess[s].args.tweet_id] \in likes

\* C13: create_like for a tweet_id that is the id of no persisted tweet
\* returns false and persists no Like row.
C13_LikeOfNoTweetFails ==
    \A s \in Sessions :
        ( /\ Returned(s, "create_like")
          /\ \A t \in sess[s].pre.tweets : t.id # sess[s].args.tweet_id )
        => /\ sess[s].ret = [result |-> FALSE]
           /\ likes = sess[s].pre.likes
           /\ \A l \in likes : l.tweet_id # sess[s].args.tweet_id

\* C13 witness: a create_like for an id that names no persisted tweet has
\* returned false while other tweets are persisted.
C13_Witness ==
    \E s \in Sessions :
        /\ Returned(s, "create_like")
        /\ \A t \in tweets : t.id # sess[s].args.tweet_id
        /\ tweets # {}
        /\ sess[s].ret.result = FALSE

\* C14: remove_like returns true exactly when the Like row (user_id,
\* tweet_id) was persisted before the call; afterwards that row is absent and
\* every other Like row is as it was, so a second removal, or the removal of
\* a like on a tweet that does not exist, returns false.
C14_RemoveLikeRemovesExactlyTheRow ==
    \A s \in Sessions :
        Returned(s, "remove_like")
        => LET row == [user_id |-> sess[s].user_id,
                       tweet_id |-> sess[s].args.tweet_id] IN
           /\ sess[s].ret.result = (row \in sess[s].pre.likes)
           /\ row \notin likes
           /\ likes = sess[s].pre.likes \ {row}
           /\ (\A t \in sess[s].pre.tweets : t.id # sess[s].args.tweet_id)
              => sess[s].ret.result = FALSE

\* C14 witness: a remove_like of a persisted row has returned true while the
\* same user's like of another tweet stays persisted.
C14_Witness ==
    \E s \in Sessions :
        /\ Returned(s, "remove_like")
        /\ sess[s].ret.result = TRUE
        /\ \E l \in likes :
               l.user_id = sess[s].user_id /\ l.tweet_id # sess[s].args.tweet_id

\* The Tweet rows of the snapshot `pre` that belong in the feed of `viewer`:
\* written by the viewer or by an author the viewer follows.
Visible(pre, viewer) ==
    {t \in pre.tweets :
        \/ t.author_id = viewer
        \/ [follower_id |-> viewer, author_id |-> t.author_id]
               \in pre.subscribes}

\* C15: get_tweets_info(viewer) returns exactly the persisted tweets whose
\* author is the viewer or is followed by the viewer, each exactly once,
\* however many followers, followed authors and likes there are.
C15_FeedIsOwnAndFollowedOnce ==
    \A s \in Sessions :
        Returned(s, "get_tweets_info")
        => LET feed == sess[s].ret.tweets
               visible == Visible(sess[s].pre, sess[s].user_id) IN
           /\ {[id |-> feed[i].id, content |-> feed[i].content,
                author_id |-> feed[i].author_id] : i \in DOMAIN feed} = visible
           /\ Len(feed) = Cardinality(visible)
           /\ \A i, j \in DOMAIN feed : i # j => feed[i].id # feed[j].id

\* C15 witness: a feed of two tweets has returned for a viewer who has a
\* tweet of their own with more than one like, has more than one follower
\* and follows the author of another tweet.
C15_Witness ==
    \E s \in Sessions :
        /\ Returned(s, "get_tweets_info")
        /\ Len(sess[s].ret.tweets) = 2
        /\ \E t \in tweets : t.author_id = sess[s].user_id
                             /\ Cardinality({l \in likes : l.tweet_id = t.id}) > 1
        /\ Cardinality({r \in subscribes : r.author_id = sess[s].user_id}) > 1
        /\ \E t \in tweets :
               /\ t.author_id # sess[s].user_id
               /\ [follower_id |-> sess[s].user_id, author_id |-> t.author_id]
                      \in subscribes

\* C16 (as claimed): get_tweets_info(viewer) returns the feed in descending
\* order of like count: of two tweets of the result, the one with strictly
\* more Like rows never comes after the one with strictly fewer, whatever
\* the viewer's own tweets, followed authors' tweets and the number of
\* Subscribe rows with the viewer as follower or author.
C16_FeedOrderedByLikeCount ==
    \A s \in Sessions :
        Returned(s, "get_tweets_info")
        => LET feed == sess[s].ret.tweets
               Likes(id) ==
                   Cardinality({l \in sess[s].pre.likes : l.tweet_id = id}) IN
           \A i, j \in DOMAIN feed :
               i < j => Likes(feed[i].id) >= Likes(feed[j].id)

\* C17: for every tweet of the result of get_tweets_info, attachments holds
\* exactly one URL per Media row attached to the tweet, ending in
\* /{media_id}.{file_type}; author is the tweet's author, id and name; likes
\* holds exactly one entry per Like row on the tweet, with the liking user's
\* user_id and that user's name, and is empty when the tweet has no like.
C17_FeedEntriesResolved ==
    \A s \in Sessions :
        Returned(s, "get_tweets_info")
        => \A i \in DOMAIN sess[s].ret.tweets :
               LET e == sess[s].ret.tweets[i]
                   attached == {m \in sess[s].pre.medias : m.tweet_id = e.id}
                   liked == {l \in sess[s].pre.likes : l.tweet_id = e.id} IN
               /\ \A u \in DOMAIN e.attachments : e.attachments[u] = 1
               /\ Cardinality(DOMAIN e.attachments) = Cardinality(attached)
               /\ \A m \in attached :
                      \E u \in DOMAIN e.attachments :
                          SubSeq(u, Len(u) - 3, Len(u))
                              = <<"/", m.id, Dot, m.file_type>>
               /\ \E t \in sess[s].pre.tweets :
                      /\ t.id = e.id
                      /\ e.author = [id |-> t.author_id,
                                     name |-> UserNames[t.author_id]]
               /\ \A d \in DOMAIN e.likes : e.likes[d] = 1
               /\ Cardinality(DOMAIN e.likes) = Cardinality(liked)
               /\ \A l \in liked :
                      \E d \in DOMAIN e.likes :
                          /\ d.user_id = l.user_id
                          /\ d.name = UserNames[l.user_id]
               /\ \A d \in DOMAIN e.likes : d.name = UserNames[d.user_id]
               /\ liked = {} => DOMAIN e.likes = {}

\* C17 witness: a follower's feed has returned with a tweet of the followed
\* author that has two attachments and two likes, one of them the
\* follower's, and a tweet with no attachment and no like.
C17_Witness ==
    \E s \in Sessions :
        /\ Returned(s, "get_tweets_info")
        /\ \E i, j \in DOMAIN sess[s].ret.tweets :
               /\ sess[s].ret.tweets[i].author_id # sess[s].user_id
               /\ Cardinality(DOMAIN sess[s].ret.tweets[i].attachments) = 2
               /\ Cardinality(DOMAIN sess[s].ret.tweets[i].likes) = 2
               /\ \E d \in DOMAIN sess[s].ret.tweets[i].likes :
                      d.user_id = sess[s].user_id
               /\ DOMAIN sess[s].ret.tweets[j].attachments = {}
               /\ DOMAIN sess[s].ret.tweets[j].likes = {}

\* C18: get_full_user_info(user_id) returns an empty result when no user has
\* that id and no User object is passed; for an existing user it returns the
\* user's own fields, following = exactly the users a with a Subscribe row
\* (user_id, a), and followers = exactly the users f with a Subscribe row
\* (f, user_id), each once.
C18_ProfileMatchesSubscribeRows ==
    \A s \in Sessions :
        Returned(s, "get_full_user_info")
        => LET id == sess[s].user_id
               info == sess[s].ret
               User(u) == [id |-> u, name |-> UserNames[u]] IN
           IF id \notin Users /\ sess[s].args.user = [none |-> NULL]
           THEN DOMAIN info = {}
           ELSE /\ info.id = id
                /\ info.name = UserNames[id]
                /\ DOMAIN info.following =
                       {User(a) : a \in {x \in Users :
                            [follower_id |-> id, author_id |-> x]
                                \in sess[s].pre.subscribes}}
                /\ \A u \in DOMAIN info.following : info.following[u] = 1
                /\ DOMAIN info.followers =
                       {User(f) : f \in {x \in Users :
                            [follower_id |-> x, author_id |-> id]
                                \in sess[s].pre.subscribes}}
                /\ \A u \in DOMAIN info.followers : info.followers[u] = 1

\* C18 witness: the profile of a user who follows two users and is followed
\* by one of them only has returned.
C18_Witness ==
    \E s \in Sessions :
        /\ Returned(s, "get_full_user_info")
        /\ sess[s].user_id \in Users
        /\ Cardinality(DOMAIN sess[s].ret.following) = 2
        /\ Cardinality(DOMAIN sess[s].ret.followers) = 1

\* The characters of `name` after its last dot; the empty string when it has
\* no dot.
AfterLastDot(name) ==
    IF \A i \in DOMAIN name : name[i] # Dot THEN <<>>
    ELSE LET k == CHOOSE i \in DOMAIN name :
                      name[i] = Dot /\ \A j \in (i + 1)..Len(name) : name[j] # Dot
         IN SubSeq(name, k + 1, Len(name))

\* The extensions of the allow-list ("png", "jpg") in the spellings the
\* upload names use.
AllowedSpellings == {<<"j", "p", "g">>, <<"J", "P", "G">>, <<"p", "n", "g">>}

\* C19 (as claimed): for every uploaded file that passes validation (size
\* present and not above the maximum, extension after the last dot in the
\* allow-list, names with more than one dot included) add_media returns an
\* integer media_id, persists exactly one new Media row with user_id the
\* uploader, tweet_id null and file_type the extension, and exactly one new
\* file {media_id}.{extension} appears on storage.
C19_ValidUploadIsStored ==
    \A s \in Sessions :
        ( /\ Returned(s, "add_media")
          /\ sess[s].args.media.size # NoSize
          /\ sess[s].args.media.size <= MaxImageSize
          /\ AfterLastDot(sess[s].args.media.filename) \in AllowedSpellings )
        => LET ext == AfterLastDot(sess[s].args.media.filename) IN
           /\ "media_id" \in DOMAIN sess[s].ret
           /\ sess[s].ret.media_id \in Nat
           /\ \A m \in sess[s].pre.medias : m.id # sess[s].ret.media_id
           /\ medias = sess[s].pre.medias \cup
                         {[id |-> sess[s].ret.media_id, file_type |-> ext,
                           user_id |-> sess[s].user_id, tweet_id |-> NULL]}
           /\ <<sess[s].ret.media_id, Dot, ext>> \notin sess[s].pre.files
           /\ files = sess[s].pre.files \cup {<<sess[s].ret.media_id, Dot, ext>>}

\* C20: an upload whose filename has no extension, whose extension compared
\* without case is not in the allow-list, or whose size is missing or above
\* the maximum is rejected with a 422 before add_media runs: no Media row is
\* persisted and no file appears on storage.
C20_BadUploadRejected ==
    \A s \in Sessions :
        ( /\ sess[s].pc = "done"
          /\ sess[s].op \in {"check_file", "add_media"}
          /\ \/ AfterLastDot(sess[s].args.media.filename) \notin AllowedSpellings
             \/ sess[s].args.media.size = NoSize
             \/ sess[s].args.media.size > MaxImageSize )
        => /\ sess[s].op = "check_file"
           /\ sess[s].ret.status = 422
           /\ sess[s].ops = {}
           /\ medias = sess[s].pre.medias
           /\ files = sess[s].pre.files

\* C20 witness: an upload of a valid size with the extension "txt" has been
\* rejected with the detail type_error alone, after another upload was
\* stored.
C20_Witness ==
    \E s \in Sessions :
        /\ Returned(s, "check_file")
        /\ sess[s].args.media.size = 1
        /\ AfterLastDot(sess[s].args.media.filename) = <<"t", "x", "t">>
        /\ sess[s].ret = [status |-> 422, detail |-> {"type_error"}]
        /\ medias # {}
        /\ files # {}

\* The api-key header `hdr` is recognised: it is there and its key is the key
\* of the ApiKey row of a user.
Recognised(hdr) ==
    /\ hdr # <<>>
    /\ \E u \in Users, k \in ApiKeys : k.id = UserKeyId(u) /\ k.key = hdr[1]

\* C21: a request with no api-key header, or with a key that is the key of
\* no ApiKey row attached to a user, ends in a 422 without any data-access
\* operation of the endpoint, so no persisted row and no stored file changes;
\* a request with a recognised key runs its endpoint as exactly the user
\* whose ApiKey row has that key.
C21_ApiKeyDecidesTheUser ==
    \A s \in Sessions :
        sess[s].pc = "done"
        => IF Recognised(header[s])
           THEN /\ sess[s].op # "get_user_by_api_key"
                /\ sess[s].user_id \in Users
                /\ \E k \in ApiKeys :
                       k.id = UserKeyId(sess[s].user_id) /\ k.key = header[s][1]
           ELSE /\ sess[s].op = "get_user_by_api_key"
                /\ sess[s].ret.status = 422
                /\ sess[s].ops \subseteq {"select"}
                /\ tweets = sess[s].pre.tweets
                /\ medias = sess[s].pre.medias
                /\ likes = sess[s].pre.likes
                /\ subscribes = sess[s].pre.subscribes
                /\ files = sess[s].pre.files

\* C21 witness: a request with the key of an ApiKey row that no user has was
\* rejected while tweets, likes and files are persisted.
C21_Witness ==
    \E s \in Sessions :
        /\ Returned(s, "get_user_by_api_key")
        /\ header[s] # <<>>
        /\ \E k \in ApiKeys : k.key = header[s][1]
        /\ sess[s].ret.status = 422
        /\ tweets # {}
        /\ likes # {}
        /\ files # {}

\* An add_tweet call between its flush and its commit or rollback.
InFlight(s) == sess[s].op = "add_tweet" /\ sess[s].pc \in {"flushed", "updated"}

\* An add_tweet call that ended in rollback.
RolledBack(s) ==
    /\ Returned(s, "add_tweet")
    /\ sess[s].ret = [result |-> FALSE]
    /\ "rollback" \in sess[s].ops

\* The tweet ids a finished get_by_id or get_tweets_info call has shown.
Observed(o) ==
    IF Returned(o, "get_by_id")
    THEN IF sess[o].ret.row = NoRow THEN {} ELSE {sess[o].ret.row.id}
    ELSE IF Returned(o, "get_tweets_info")
         THEN {sess[o].ret.tweets[i].id : i \in DOMAIN sess[o].ret.tweets}
         ELSE {}

\* C22: while an add_tweet call is between its flush and its commit or
\* rollback, and after it ended in rollback, its Tweet row is not among the
\* committed rows, no committed Media row points to it, and no get_by_id or
\* get_tweets_info result of another request shows it; every such result
\* shows only rows that were committed when the call was made, and a Tweet
\* row becomes committed only in the step in which its add_tweet returns
\* success.
C22_UncommittedTweetIsInvisible ==
    /\ [](\A s \in DOMAIN sess :
            /\ (InFlight(s) \/ RolledBack(s)) =>
                 /\ \A t \in tweets : t.id # sess[s].loc.tweet_id
                 /\ \A m \in medias : m.tweet_id # sess[s].loc.tweet_id
                 /\ \A o \in DOMAIN sess \ {s} :
                        sess[s].loc.tweet_id \notin Observed(o)
            /\ Observed(s) \subseteq {t.id : t \in sess[s].pre.tweets})
    /\ [][\A t \in tweets' \ tweets :
            \E s \in DOMAIN sess :
                /\ InFlight(s)
                /\ sess'[s].pc = "done"
                /\ sess'[s].ret = [result |-> TRUE, tweet_id |-> t.id]]_vars

\* C22 happens: an add_tweet call holds an uncommitted Tweet row and pending
\* Media updates while the feed of its own author, read by a request that
\* started after the flush (it saw a Media row committed since), is returned
\* without it.
C22_Witness ==
    \E s \in DOMAIN sess : \E o \in DOMAIN sess \ {s} :
        /\ InFlight(s)
        /\ sess[s].pc = "updated"
        /\ sess[s].loc.tx.claim # {}
        /\ Returned(o, "get_tweets_info")
        /\ sess[o].user_id = sess[s].user_id
        /\ sess[s].pre.medias \subseteq sess[o].pre.medias
        /\ sess[s].pre.medias # sess[o].pre.medias

\* An add_tweet call that was given a non-empty list of media ids and has
\* returned.
ReturnedWithMedia(s) ==
    /\ Returned(s, "add_tweet")
    /\ sess[s].args.tweet_media_ids.given
    /\ sess[s].args.tweet_media_ids.ids # {}

\* C26: an add_tweet call given media ids returns success exactly when its
\* UPDATE claimed a row; a call that claimed none has rolled back and its
\* tweet is not persisted; the rows a successful call claimed are attached
\* to its tweet; and of two calls that listed the same Media id, unattached
\* when each of them started, at most one claimed it.
C26_SharedMediaClaimedOnce ==
    /\ \A s \in DOMAIN sess :
          ReturnedWithMedia(s) =>
            /\ sess[s].ret.result = (sess[s].loc.tx.claim # {})
            /\ ~sess[s].ret.result =>
                 /\ "rollback" \in sess[s].ops
                 /\ \A t \in tweets : t.id # sess[s].loc.tweet_id
            /\ sess[s].ret.result =>
                 /\ \E t \in tweets : t.id = sess[s].loc.tweet_id
                 /\ \A m \in medias :
                        m.id \in sess[s].loc.tx.claim =>
                            m.tweet_id = sess[s].loc.tweet_id
    /\ \A s1 \in DOMAIN sess : \A s2 \in DOMAIN sess \ {s1} :
          (ReturnedWithMedia(s1) /\ ReturnedWithMedia(s2)
             /\ sess[s1].user_id = sess[s2].user_id) =>
            \A m \in Claimable(sess[s1].pre.medias, sess[s1].user_id,
                               sess[s1].args.tweet_media_ids.ids)
                     \cap Claimable(sess[s2].pre.medias, sess[s2].user_id,
                                    sess[s2].args.tweet_media_ids.ids) :
                ~(m.id \in sess[s1].loc.tx.claim /\ m.id \in sess[s2].loc.tx.claim)

\* C26 happens: two add_tweet calls of one user listed a Media id that was
\* unattached when each started; one returned success and the other rolled
\* back.
C26_Witness ==
    \E s1 \in DOMAIN sess : \E s2 \in DOMAIN sess \ {s1} :
        /\ ReturnedWithMedia(s1)
        /\ ReturnedWithMedia(s2)
        /\ sess[s1].user_id = sess[s2].user_id
        /\ Claimable(sess[s1].pre.medias, sess[s1].user_id,
                     sess[s1].args.tweet_media_ids.ids)
             \cap Claimable(sess[s2].pre.medias, sess[s2].user_id,
                            sess[s2].args.tweet_media_ids.ids) # {}
        /\ sess[s1].ret.result
        /\ RolledBack(s2)

\* Two calls of `op` for the same user and arguments, both returned.
SamePair(s1, s2, op) ==
    /\ Returned(s1, op)
    /\ Returned(s2, op)
    /\ sess[s1].user_id = sess[s2].user_id
    /\ sess[s1].args = sess[s2].args

\* The committed state a create_like call started from holds the tweet and
\* no Like row of the pair.
LikeWasPossible(s) ==
    /\ \E t \in sess[s].pre.tweets : t.id = sess[s].args.tweet_id
    /\ [user_id |-> sess[s].user_id, tweet_id |-> sess[s].args.tweet_id]
           \notin sess[s].pre.likes

\* The committed state an add_subscribe call started from holds no Subscribe
\* row of the pair, and the pair is not a self-subscribe.
SubscribeWasPossible(s) ==
    /\ sess[s].user_id # sess[s].args.author_id
    /\ [follower_id |-> sess[s].user_id, author_id |-> sess[s].args.author_id]
           \notin sess[s].pre.subscribes

\* One of the two calls committed and returned True, the other rolled back
\* and returned False.
OneWinner(s1, s2) ==
    \E w \in {s1, s2} : \E l \in {s1, s2} \ {w} :
        /\ sess[w].ret = [result |-> TRUE]
        /\ "commit" \in sess[w].ops
        /\ sess[l].ret = [result |-> FALSE]
        /\ "rollback" \in sess[l].ops
        /\ "commit" \notin sess[l].ops

\* C23: of two create_like calls for one (user, tweet) pair that both
\* started when the tweet existed and the pair had no Like row, exactly one
\* returns True, the other returns False after rolling back, and the Like
\* row of the pair persists; the same for two add_subscribe calls for one
\* (follower, author) pair.
C23_DuplicateRaceHasOneWinner ==
    \A s1 \in DOMAIN sess : \A s2 \in DOMAIN sess \ {s1} :
        /\ (SamePair(s1, s2, "create_like")
              /\ LikeWasPossible(s1) /\ LikeWasPossible(s2)) =>
             /\ OneWinner(s1, s2)
             /\ [user_id |-> sess[s1].user_id,
                 tweet_id |-> sess[s1].args.tweet_id] \in likes
        /\ (SamePair(s1, s2, "add_subscribe")
              /\ SubscribeWasPossible(s1) /\ SubscribeWasPossible(s2)) =>
             /\ OneWinner(s1, s2)
             /\ [follower_id |-> sess[s1].user_id,
                 author_id |-> sess[s1].args.author_id] \in subscribes

\* C23 happens: two create_like calls for one pair started before either
\* committed and both have returned.
C23_Witness ==
    \E s1 \in DOMAIN sess : \E s2 \in DOMAIN sess \ {s1} :
        /\ SamePair(s1, s2, "create_like")
        /\ LikeWasPossible(s1)
        /\ LikeWasPossible(s2)
        /\ sess[s1].ret = [result |-> TRUE]
        /\ sess[s2].ret = [result |-> FALSE]

\* C24: when remove_tweet's DELETE matches no row (no tweet of that id
\* written by the caller), media_task.cancel() is called, a media task that
\* had not finished ends cancelled, the call returns False without raising,
\* neither commit nor a file removal is issued, and rows and files are as
\* they were.
C24_CancelledLookupIsNoError ==
    \A s \in Sessions :
        (/\ Returned(s, "remove_tweet")
         /\ ~\E t \in sess[s].pre.tweets :
                t.id = sess[s].args.tweet_id /\ t.author_id = sess[s].user_id) =>
            /\ sess[s].loc.cancel
            /\ sess[s].loc.schedule = "select_cancelled" =>
                   sess[s].loc.media_task = "cancelled"
            /\ sess[s].ret = [result |-> FALSE]
            /\ "commit" \notin sess[s].ops
            /\ "remove" \notin sess[s].ops
            /\ tweets = sess[s].pre.tweets
            /\ medias = sess[s].pre.medias
            /\ likes = sess[s].pre.likes
            /\ files = sess[s].pre.files

\* C24 happens: a user who is not the author asked to remove a tweet that
\* has a media file, and the media task was cancelled before it finished.
C24_Witness ==
    \E s \in Sessions :
        /\ Returned(s, "remove_tweet")
        /\ \E t \in tweets :
              /\ t.id = sess[s].args.tweet_id
              /\ t.author_id # sess[s].user_id
              /\ \E m \in medias : m.tweet_id = t.id
        /\ sess[s].loc.media_task = "cancelled"
        /\ sess[s].ret = [result |-> FALSE]

\* C25: when get_tweets_info returns, no sub-task of either task group is
\* still running or held by its group, no callback is left in the queue, and
\* the callbacks have written every result: every tweet of the list has the
\* User row of its author (never None) and every like entry of every tweet
\* has the name of its user, one entry per Like row.
C25_SubTasksJoinedBeforeMerge ==
    \A s \in Sessions :
        Returned(s, "get_tweets_info") =>
            /\ sess[s].loc.running = {}
            /\ sess[s].loc.tg_tasks = {}
            /\ sess[s].loc.ready = <<>>
            /\ Len(sess[s].ret.tweets) = Len(sess[s].loc.order)
            /\ \A i \in DOMAIN sess[s].ret.tweets :
                 LET e == sess[s].ret.tweets[i]
                     liked == {l \in sess[s].pre.likes : l.tweet_id = e.id} IN
                 /\ e.author = [id |-> e.author_id,
                                name |-> UserNames[e.author_id]]
                 /\ DOMAIN e.likes =
                        {[user_id |-> l.user_id, tweet_id |-> l.tweet_id,
                          name |-> UserNames[l.user_id]] : l \in liked}

\* C25 happens: a feed of two tweets, one of them liked by two users, was
\* returned after both task groups ran.
C25_Witness ==
    \E s \in Sessions :
        /\ Returned(s, "get_tweets_info")
        /\ Len(sess[s].ret.tweets) = 2
        /\ \E i \in DOMAIN sess[s].ret.tweets :
               Cardinality(DOMAIN sess[s].ret.tweets[i].likes) = 2
        /\ \E t \in sess[s].loc.written : t.attr = "user"

\* C27: every Media row with a tweet_id refers to a Tweet row that exists
\* and whose author is the Media row's user.
C27_MediaAttachedToOwnTweet ==
    \A m \in medias :
        m.tweet_id # NULL =>
            \E t \in tweets : t.id = m.tweet_id /\ t.author_id = m.user_id

\* C27 happens: a Media row is attached to a tweet, and an add_tweet call
\* that listed an unattached Media row of another user has failed.
C27_Witness ==
    /\ \E m \in medias : m.tweet_id # NULL
    /\ \E s \in Sessions :
          /\ Returned(s, "add_tweet")
          /\ sess[s].ret = [result |-> FALSE]
          /\ \E m \in sess[s].pre.medias :
                /\ m.id \in sess[s].args.tweet_media_ids.ids
                /\ m.user_id # sess[s].user_id
                /\ m.tweet_id = NULL

\* C28: every Like row names an existing tweet and an existing user, every
\* Media row with a tweet_id names an existing tweet, every Subscribe row
\* names two existing users, and after a successful remove_tweet no Like or
\* Media row names the removed tweet.
C28_ReferentialIntegrity ==
    /\ \A l \in likes :
          /\ \E t \in tweets : t.id = l.tweet_id
          /\ l.user_id \in Users
    /\ \A m \in medias :
          m.tweet_id # NULL => \E t \in tweets : t.id = m.tweet_id
    /\ \A r \in subscribes : r.follower_id \in Users /\ r.author_id \in Users
    /\ \A s \in Sessions :
          (Returned(s, "remove_tweet") /\ sess[s].ret = [result |-> TRUE]) =>
             /\ \A l \in likes : l.tweet_id # sess[s].args.tweet_id
             /\ \A m \in medias : m.tweet_id # sess[s].args.tweet_id

\* C28 happens: a tweet with a Like row and a Media row was removed while a
\* Subscribe row exists.
C28_Witness ==
    \E s \in Sessions :
        /\ Returned(s, "remove_tweet")
        /\ sess[s].ret = [result |-> TRUE]
        /\ \E l \in sess[s].pre.likes : l.tweet_id = sess[s].args.tweet_id
        /\ \E m \in sess[s].pre.medias : m.tweet_id = sess[s].args.tweet_id
        /\ subscribes # {}

\* C29 (as claimed): after any add_media call, one whose file write failed
\* after the insert included, a new Media row is persisted if and only if
\* its file {media_id}.{file_type} exists on storage.
C29_AddMediaAllOrNothing ==
    \A s \in Sessions :
        Returned(s, "add_media") =>
            /\ \A m \in medias \ sess[s].pre.medias :
                   <<m.id, Dot, m.file_type>> \in files
            /\ \A f \in files \ sess[s].pre.files :
                   \E m \in medias \ sess[s].pre.medias :
                       f = <<m.id, Dot, m.file_type>>

\* The Media rows attached to the tweet a remove_tweet call named, in the
\* state the call started from.
AttachedBefore(s) ==
    {m \in sess[s].pre.medias : m.tweet_id = sess[s].args.tweet_id}

\* C30 (as claimed): after any remove_tweet call for a tweet of the caller,
\* one in which removing an attached file failed included, either the tweet
\* is gone and the file of every Media row that was attached to it is
\* removed, or the tweet, its Media rows and all of their files are still
\* there.
C30_RemoveTweetAllOrNothing ==
    \A s \in Sessions :
        (/\ Returned(s, "remove_tweet")
         /\ \E t \in sess[s].pre.tweets :
               t.id = sess[s].args.tweet_id /\ t.author_id = sess[s].user_id) =>
            \/ /\ \A t \in tweets : t.id # sess[s].args.tweet_id
               /\ \A m \in AttachedBefore(s) :
                      <<m.id, Dot, m.file_type>> \notin files
            \/ /\ \E t \in tweets : t.id = sess[s].args.tweet_id
               /\ AttachedBefore(s) \subseteq medias
               /\ \A m \in AttachedBefore(s) :
                      <<m.id, Dot, m.file_type>> \in sess[s].pre.files =>
                          <<m.id, Dot, m.file_type>> \in files

====
